---- MODULE Spec2Model ----
(***************************************************************************)
(* A model of SciPlot's adaptive curve simplification engine               *)
(* (src/data_processing/utils/curve_simpler.py): the CurveData value, the  *)
(* Douglas-Peucker work loop, the similarity score (NCC), the tolerance    *)
(* search and the CurveSimplifier instance with its cached tolerance.      *)
(*                                                                         *)
(* Numbers.  The code computes in IEEE doubles.  The model computes the    *)
(* same quantities exactly: curve coordinates are integers, a tolerance is *)
(* a signed fixed-point number over the denominator TolDen (every value    *)
(* the search can produce from 1e-6 and 1.0 by halving is such a number),  *)
(* a distance is kept as its square, a rational <<n, d>>, and "distance >  *)
(* tolerance" is decided by comparing squares.  The products do not fit    *)
(* TLC's 32-bit integers, so they are computed on naturals written as      *)
(* sequences of base-10000 limbs, least significant first (Big...).        *)
(***************************************************************************)
EXTENDS Integers, Sequences, FiniteSets, TLC

(***************************************************************************)
(* Arbitrary-size naturals: <<>> is 0, no most-significant zero limb.      *)
(***************************************************************************)
RECURSIVE BigOf(_)
BigOf(n) ==
    IF n = 0 THEN <<>> ELSE <<n % 10000>> \o BigOf(n \div 10000)

RECURSIVE BigAddC(_, _, _)
BigAddC(a, b, c) ==
    IF a = <<>> /\ b = <<>>
    THEN (IF c = 0 THEN <<>> ELSE <<c>>)
    ELSE LET x == (IF a = <<>> THEN 0 ELSE Head(a))
                  + (IF b = <<>> THEN 0 ELSE Head(b)) + c
         IN  <<x % 10000>> \o BigAddC(IF a = <<>> THEN a ELSE Tail(a),
                                      IF b = <<>> THEN b ELSE Tail(b),
                                      x \div 10000)

BigAdd(a, b) == BigAddC(a, b, 0)

\* the carries of a sequence of column sums propagated, limb by limb
RECURSIVE BigCarry(_, _, _)
BigCarry(cols, i, c) ==
    IF i > Len(cols)
    THEN (IF c = 0 THEN <<>> ELSE BigOf(c))
    ELSE <<(cols[i] + c) % 10000>> \o BigCarry(cols, i + 1, (cols[i] + c) \div 10000)

\* the sum of a[i] * b[k + 1 - i] over the limbs i of a, from i on
RECURSIVE BigColumn(_, _, _, _)
BigColumn(a, b, k, i) ==
    IF i > Len(a) \/ i > k THEN 0
    ELSE (IF k + 1 - i <= Len(b) THEN a[i] * b[k + 1 - i] ELSE 0)
         + BigColumn(a, b, k, i + 1)

BigMul(a, b) ==
    IF a = <<>> \/ b = <<>>
    THEN <<>>
    ELSE BigCarry([k \in 1..(Len(a) + Len(b) - 1) |-> BigColumn(a, b, k, 1)], 1, 0)

RECURSIVE BigLessFrom(_, _, _)
BigLessFrom(a, b, i) ==
    IF i = 0 THEN FALSE
    ELSE IF a[i] # b[i] THEN a[i] < b[i]
    ELSE BigLessFrom(a, b, i - 1)

BigLess(a, b) ==
    IF Len(a) # Len(b) THEN Len(a) < Len(b) ELSE BigLessFrom(a, b, Len(a))

RECURSIVE BigNorm(_)
BigNorm(a) ==
    IF a = <<>> THEN a
    ELSE IF a[Len(a)] = 0 THEN BigNorm(SubSeq(a, 1, Len(a) - 1))
    ELSE a

\* a - b for b <= a
RECURSIVE BigSubB(_, _, _)
BigSubB(a, b, borrow) ==
    IF a = <<>> THEN <<>>
    ELSE LET x == Head(a) - (IF b = <<>> THEN 0 ELSE Head(b)) - borrow
         IN  <<(x + 10000) % 10000>>
             \o BigSubB(Tail(a), IF b = <<>> THEN b ELSE Tail(b),
                        IF x < 0 THEN 1 ELSE 0)

BigSub(a, b) == BigNorm(BigSubB(a, b, 0))

\* a / 2, rounded down, from the most significant limb
RECURSIVE BigHalfFrom(_, _, _)
BigHalfFrom(a, i, rem) ==
    IF i = 0 THEN <<>>
    ELSE LET x == rem * 10000 + a[i]
         IN  BigHalfFrom(a, i - 1, x % 2) \o <<x \div 2>>

BigHalf(a) == BigNorm(BigHalfFrom(a, Len(a), 0))

BigSq(a) == BigMul(a, a)

(***************************************************************************)
(* Tolerances: neg is the sign, mag the magnitude in units of 1/TolDen.    *)
(* TolDen = 10^6 * 2^20 makes 1e-6, 1.0 and every midpoint and quarter     *)
(* point of the search (line 126, 137, 138) exact.                         *)
(***************************************************************************)
TolDen == BigMul(BigOf(1000000), BigOf(1048576))

TolDenSq == BigSq(TolDen)

\* the tolerance k/2, for a small integer k
HalfUnits(k) ==
    [neg |-> k < 0,
     mag |-> BigMul(BigOf(IF k < 0 THEN -k ELSE k), BigHalf(TolDen))]

\* t1 <= t2 on tolerances
TolLeq(t1, t2) ==
    IF t1.neg /\ t2.neg THEN ~BigLess(t1.mag, t2.mag)
    ELSE IF t1.neg THEN TRUE
    ELSE IF t2.neg THEN FALSE
    ELSE ~BigLess(t2.mag, t1.mag)

\* "dmax > epsilon" (line 246) for a squared distance d2 = <<n, d>>, i.e.
\* the distance sqrt(n/d): a distance is never negative, so it exceeds a
\* negative epsilon, and otherwise n/d > (mag/TolDen)^2.
\* faulty variants of DistExceeds: ">=" for ">", "<" for ">", and the squares
\* compared without regard to epsilon's sign
DistExceedsOrEqual(d2, eps) ==
    IF eps.neg THEN TRUE
    ELSE ~BigLess(BigMul(BigOf(d2[1]), TolDenSq),
                  BigMul(BigOf(d2[2]), BigSq(eps.mag)))

DistBelow(d2, eps) ==
    IF eps.neg THEN FALSE
    ELSE BigLess(BigMul(BigOf(d2[1]), TolDenSq),
                 BigMul(BigOf(d2[2]), BigSq(eps.mag)))

DistExceedsSquared(d2, eps) ==
    BigLess(BigMul(BigOf(d2[2]), BigSq(eps.mag)),
            BigMul(BigOf(d2[1]), TolDenSq))

DistExceeds(d2, eps) ==
    IF eps.neg THEN TRUE
    ELSE BigLess(BigMul(BigOf(d2[2]), BigSq(eps.mag)),
                 BigMul(BigOf(d2[1]), TolDenSq))

\* r1 > r2 for squared distances (rationals with positive denominators)
RatGreater(r1, r2) == r1[1] * r2[2] > r2[1] * r1[2]

(***************************************************************************)
(* CurveData (lines 26-48): a record [x, y] of two sequences.              *)
(* A call that raises yields [err |-> <exception>, val |-> <<>>].          *)
(***************************************************************************)
Ok(v) == [err |-> "", val |-> v]
Raise(e) == [err |-> e, val |-> <<>>]

CurveData(xs, ys) == [x |-> xs, y |-> ys]

\* CurveData.points: np.column_stack((x, y)) raises when the lengths differ
points_of(data) ==
    IF Len(data.x) # Len(data.y)
    THEN Raise("ValueError")
    ELSE Ok([i \in 1..Len(data.x) |-> <<data.x[i], data.y[i]>>])

(***************************************************************************)
(* _perpendicular_distance (lines 149-172): the squared distance of every  *)
(* point of pts to the line through start and end, or to the point start   *)
(* when start = end.                                                       *)
(***************************************************************************)
Abs(v) == IF v < 0 THEN -v ELSE v

\* faulty variant of perpendicular_distance: the distance to the point start
\* whether or not start = end
perpendicular_distance_to_start(pts, start, end) ==
    [i \in 1..Len(pts) |->
        <<(pts[i][1] - start[1]) * (pts[i][1] - start[1])
          + (pts[i][2] - start[2]) * (pts[i][2] - start[2]), 1>>]

perpendicular_distance(pts, start, end) ==
    IF start = end
    THEN [i \in 1..Len(pts) |->
            <<(pts[i][1] - start[1]) * (pts[i][1] - start[1])
              + (pts[i][2] - start[2]) * (pts[i][2] - start[2]), 1>>]
    ELSE LET dx == end[1] - start[1]
             dy == end[2] - start[2]
             val(p) == Abs(dy * p[1] - dx * p[2] - start[1] * dy + start[2] * dx)
         IN  [i \in 1..Len(pts) |-> <<val(pts[i]) * val(pts[i]), dx * dx + dy * dy>>]

\* faulty variant of ArgMax: the position of the last maximum
RECURSIVE ArgMaxLastFrom(_, _, _)
ArgMaxLastFrom(ds, i, best) ==
    IF i > Len(ds) THEN best
    ELSE ArgMaxLastFrom(ds, i + 1, IF RatGreater(ds[best], ds[i]) THEN best ELSE i)

ArgMaxLast(ds) == ArgMaxLastFrom(ds, 2, 1)

\* np.argmax (line 244): the 1-based position of the first maximum
ArgMax(ds) ==
    CHOOSE i \in 1..Len(ds) :
        /\ \A j \in 1..Len(ds) : ~RatGreater(ds[j], ds[i])
        /\ \A j \in 1..(i - 1) : RatGreater(ds[i], ds[j])

(***************************************************************************)
(* _douglas_peucker_iterative (lines 210-250).  Indices are 0-based as in  *)
(* the code; point i of the curve is pts[i + 1].                           *)
(***************************************************************************)
\* faulty variant of dp_step: the slice points[start:end] for points[start:end+1]
dp_step_slice(pts, eps, stk, res) ==
    LET top == stk[Len(stk)]
        rest == SubSeq(stk, 1, Len(stk) - 1)
        start == top[1]
        end == top[2]
    IN  IF end - start <= 1
        THEN [stack |-> rest, result |-> res]
        ELSE LET segment == SubSeq(pts, start + 1, end)
             IN  IF Len(segment) <= 2
                 THEN [stack |-> rest, result |-> res]
                 ELSE LET distances ==
                              perpendicular_distance(SubSeq(segment, 2, Len(segment) - 1),
                                                     segment[1], segment[Len(segment)])
                          am == ArgMax(distances)
                          dmax == distances[am]
                          index == (am - 1) + start + 1
                      IN  IF DistExceeds(dmax, eps)
                          THEN [stack |-> rest \o << <<start, index>>, <<index, end>> >>,
                                result |-> Append(res, index)]
                          ELSE [stack |-> rest, result |-> res]

\* one iteration of the while loop (lines 231-248)
dp_step(pts, eps, stk, res) ==
    LET top == stk[Len(stk)]
        rest == SubSeq(stk, 1, Len(stk) - 1)
        start == top[1]
        end == top[2]
    IN  IF end - start <= 1
        THEN [stack |-> rest, result |-> res]
        ELSE LET segment == SubSeq(pts, start + 1, end + 1)
             IN  IF Len(segment) <= 2
                 THEN [stack |-> rest, result |-> res]
                 ELSE LET distances ==
                              perpendicular_distance(SubSeq(segment, 2, Len(segment) - 1),
                                                     segment[1], segment[Len(segment)])
                          am == ArgMax(distances)
                          dmax == distances[am]
                          index == (am - 1) + start + 1
                      IN  IF DistExceeds(dmax, eps)
                          THEN [stack |-> rest \o << <<start, index>>, <<index, end>> >>,
                                result |-> Append(res, index)]
                          ELSE [stack |-> rest, result |-> res]

\* faulty variant of dp_init: the last index is not put in the retained list
dp_init_no_last(pts) ==
    [stack |-> << <<0, Len(pts) - 1>> >>, result |-> <<0>>]

\* lines 227-228: the initial work-list and retained list
dp_init(pts) ==
    [stack |-> << <<0, Len(pts) - 1>> >>, result |-> <<0, Len(pts) - 1>>]

RECURSIVE dp_loop(_, _, _, _)
dp_loop(pts, eps, stk, res) ==
    IF stk = <<>> THEN res
    ELSE LET s == dp_step(pts, eps, stk, res)
         IN  dp_loop(pts, eps, s.stack, s.result)

\* sorted(set(result)) (line 250)
RECURSIVE SortedSeq(_)
SortedSeq(S) ==
    IF S = {} THEN <<>>
    ELSE LET m == CHOOSE v \in S : \A w \in S : v <= w
         IN  <<m>> \o SortedSeq(S \ {m})

\* faulty variant of sorted_set: duplicates removed, the order of insertion kept
RECURSIVE DedupFrom(_, _)
DedupFrom(res, i) ==
    IF i = 0 THEN <<>>
    ELSE LET before == DedupFrom(res, i - 1)
         IN  IF \E j \in 1..(i - 1) : res[j] = res[i]
             THEN before ELSE Append(before, res[i])

sorted_set_unsorted(res) == DedupFrom(res, Len(res))

sorted_set(res) == SortedSeq({res[i] : i \in 1..Len(res)})

\* [points[i] for i in ...] (line 250): Python indexing, where a negative
\* index counts from the end and an index outside -N..N-1 raises IndexError
dp_return(pts, res) ==
    LET idx == sorted_set(res)
        n == Len(pts)
    IN  IF \E k \in 1..Len(idx) : idx[k] < -n \/ idx[k] >= n
        THEN Raise("IndexError")
        ELSE Ok([k \in 1..Len(idx) |->
                   IF idx[k] >= 0 THEN pts[idx[k] + 1] ELSE pts[n + idx[k] + 1]])

\* the retained indices, sorted(set(result)), of a whole run
dp_indices(pts, eps) ==
    sorted_set(dp_loop(pts, eps, dp_init(pts).stack, dp_init(pts).result))

douglas_peucker_iterative(pts, eps) ==
    dp_return(pts, dp_loop(pts, eps, dp_init(pts).stack, dp_init(pts).result))

\* lines 205-208: the curve of the key points
key_curve(key_points) ==
    IF key_points.err # "" THEN key_points
    ELSE Ok(CurveData([k \in 1..Len(key_points.val) |-> key_points.val[k][1]],
                      [k \in 1..Len(key_points.val) |-> key_points.val[k][2]]))

\* _simplify_with_epsilon (lines 193-208)
simplify_with_epsilon(data, eps) ==
    IF points_of(data).err # "" THEN points_of(data)
    ELSE key_curve(douglas_peucker_iterative(points_of(data).val, eps))

(***************************************************************************)
(* Signed arbitrary-size integers [neg, mag] for the comparisons of the     *)
(* similarity score with the target.                                        *)
(***************************************************************************)
SInt(n) == [neg |-> n < 0, mag |-> BigOf(IF n < 0 THEN -n ELSE n)]
SBig(m) == [neg |-> FALSE, mag |-> m]
SSgn(a) == IF a.mag = <<>> THEN 0 ELSE IF a.neg THEN -1 ELSE 1
SNeg(a) == [neg |-> ~a.neg /\ a.mag # <<>>, mag |-> a.mag]
SMul(a, b) ==
    LET m == BigMul(a.mag, b.mag)
    IN  [neg |-> (a.neg # b.neg) /\ m # <<>>, mag |-> m]
SAdd(a, b) ==
    IF a.neg = b.neg THEN [neg |-> a.neg, mag |-> BigAdd(a.mag, b.mag)]
    ELSE IF BigLess(a.mag, b.mag) THEN [neg |-> b.neg, mag |-> BigSub(b.mag, a.mag)]
    ELSE LET m == BigSub(a.mag, b.mag)
         IN  [neg |-> a.neg /\ m # <<>>, mag |-> m]
SSub(a, b) == SAdd(a, SNeg(b))
\* the sign of a - b
SCmp(a, b) == SSgn(SSub(a, b))

\* the sign of c/sqrt(q) - a/b, for signed c and a and positive q and b
CmpRootRat(c, q, a, b) ==
    LET sc == SSgn(c)
        sa == SSgn(a)
        lhs == SMul(SMul(c, c), SMul(b, b))
        rhs == SMul(SMul(a, a), q)
    IN  IF sc # sa THEN (IF sc > sa THEN 1 ELSE -1)
        ELSE IF sc = 0 THEN 0
        ELSE IF sc > 0 THEN SCmp(lhs, rhs)
        ELSE SCmp(rhs, lhs)

(***************************************************************************)
(* calculate_ncc (lines 252-288).  A similarity is                          *)
(*   [kind |-> "num", c, v1, v2]: the number c / sqrt(v1 * v2), or          *)
(*   [kind |-> "nan", ...]: a NaN.                                          *)
(* interp1d (assume_sorted=False) puts the candidate in the order of        *)
(* np.argsort(x, kind="mergesort"); its linear interpolation at x_new uses  *)
(* the segment (lo, hi) with hi = clip(searchsorted(x, x_new), 1, len - 1)  *)
(* and lo = hi - 1, so it extrapolates from the first or the last segment   *)
(* outside the candidate's range.  A segment of width 0 (two equal x, or    *)
(* the single entry of a candidate of one point, where hi = 0 and lo = -1   *)
(* are the same entry) makes the slope a division by 0 and the mean and     *)
(* the standard deviation of the resampled values NaN.  The resampled       *)
(* values are kept as integers over the common denominator D = the product  *)
(* of the candidate's segment widths other than 0.                          *)
(***************************************************************************)
NccNum(c, v1, v2) == [kind |-> "num", c |-> c, v1 |-> v1, v2 |-> v2]
NccZero == NccNum(0, 1, 1)
NccNaN == [kind |-> "nan", c |-> 0, v1 |-> 1, v2 |-> 1]

RECURSIVE SumSeq(_, _)
SumSeq(f, i) == IF i > Len(f) THEN 0 ELSE f[i] + SumSeq(f, i + 1)

\* x and y of the candidate in the order of np.argsort(x, kind="mergesort"),
\* which keeps equal x in the order they have in the candidate (and is the
\* candidate's own order when its x are ascending)
SortedByX(curve2) ==
    LET n == Len(curve2.x)
        ind == [k \in 1..n |->
                  CHOOSE i \in 1..n :
                      Cardinality({j \in 1..n :
                          \/ curve2.x[j] < curve2.x[i]
                          \/ curve2.x[j] = curve2.x[i] /\ j < i}) = k - 1]
    IN  IF \A k \in 1..(n - 1) : curve2.x[k] < curve2.x[k + 1] THEN curve2
        ELSE CurveData([k \in 1..n |-> curve2.x[ind[k]]],
                       [k \in 1..n |-> curve2.y[ind[k]]])

RECURSIVE ProdWidths(_, _)
ProdWidths(xs, i) ==
    IF i >= Len(xs) THEN 1
    ELSE (IF xs[i + 1] = xs[i] THEN 1 ELSE xs[i + 1] - xs[i])
             * ProdWidths(xs, i + 1)

\* f(v) for f = interp1d(curve2.x, curve2.y, fill_value="extrapolate") and
\* sorted = the candidate in the order of its x: D * f(v), or a NaN or an
\* infinity (nan) where the segment has width 0.  np.searchsorted(x, v) is
\* the number of entries of x below v; the index -1 is the last entry.
InterpScaled(sorted, v) ==
    LET xs == sorted.x
        ys == sorted.y
        s == Cardinality({i \in 1..Len(xs) : xs[i] < v})
        m == IF s < 1 THEN 1 ELSE s
        hi == (IF m > Len(xs) - 1 THEN Len(xs) - 1 ELSE m) + 1
        lo == IF hi = 1 THEN Len(xs) ELSE hi - 1
        w == xs[hi] - xs[lo]
        D == ProdWidths(xs, 1)
    IN  IF w = 0 THEN [nan |-> TRUE, v |-> 0]
        ELSE [nan |-> FALSE,
              v |-> (ys[lo] * w + (ys[hi] - ys[lo]) * (v - xs[lo])) * (D \div w)]

\* "std == 0" (line 282) for a standard deviation that is NaN (isnan) or
\* the square root of a multiple v of the variance.
\* faulty variant of std_is_zero: no standard deviation counts as zero
std_never_zero(isnan, v) == FALSE

std_is_zero(isnan, v) == ~isnan /\ v = 0

\* lines 285-287: with c = n^2 * the covariance and v1, v2 = n^2 * the
\* variances, the sum of products over std_y1 * std_y2 * n is
\* c / sqrt(v1 * v2).
\* faulty variant of ncc_value: no division by len(curve1.y)
ncc_value_not_averaged(n, c, v1, v2) == NccNum(c * n, v1, v2)

ncc_value(n, c, v1, v2) == NccNum(c, v1, v2)

\* minval: the least number of entries interp1d accepts (1 or 2, by SciPy
\* version).  Line 274 raises for x and y of different lengths or fewer
\* than minval entries.  np.std is NaN of an empty array or one holding a
\* NaN or an infinity, and a NaN is not == 0 (line 282).  The product of line 285 raises unless the two
\* lengths are equal or one of them is 1.
calculate_ncc(curve1, curve2, minval) ==
    IF Len(curve2.x) # Len(curve2.y) \/ Len(curve2.x) < minval
    THEN Raise("ValueError")
    ELSE LET n == Len(curve1.x)
             y1 == curve1.y
             nan1 == Len(y1) = 0
             sorted == SortedByX(curve2)
             f == [i \in 1..n |-> InterpScaled(sorted, curve1.x[i])]
             nan2 == n = 0 \/ \E i \in 1..n : f[i].nan
             Y2 == [i \in 1..n |-> f[i].v]
             S1 == SumSeq(y1, 1)
             S2 == SumSeq(Y2, 1)
             v1 == Len(y1) * SumSeq([i \in 1..Len(y1) |-> y1[i] * y1[i]], 1) - S1 * S1
             v2 == n * SumSeq([i \in 1..n |-> Y2[i] * Y2[i]], 1) - S2 * S2
             c == n * SumSeq([i \in 1..n |-> y1[i] * Y2[i]], 1) - S1 * S2
         IN  IF std_is_zero(nan1, v1) \/ std_is_zero(nan2, v2) THEN Ok(NccZero)
             ELSE IF Len(y1) # n /\ Len(y1) # 1 /\ n # 1 THEN Raise("ValueError")
             ELSE IF nan1 \/ nan2 THEN Ok(NccNaN)
             ELSE Ok(ncc_value(n, c, v1, v2))

(***************************************************************************)
(* _find_optimal_epsilon (lines 82-147).  The target is a rational          *)
(* <<num, den>>; ncc_tol, like the tolerances, is a number of units   *)
(* of 1/TolDen.  The comparisons of |target - ncc| are decided exactly, by  *)
(* squaring.                                                                *)
(***************************************************************************)
\* a similarity and a rational as signed integers: c / sqrt(q), a / b
RootOf(ncc) == [c |-> SInt(ncc.c), q |-> SMul(SInt(ncc.v1), SInt(ncc.v2))]
RatOf(num, den) == [a |-> num, b |-> den]

\* the sign of x - y for similarities in root form
CmpRoots(x, y) ==
    LET sx == SSgn(x.c)
        sy == SSgn(y.c)
        lhs == SMul(SMul(x.c, x.c), y.q)
        rhs == SMul(SMul(y.c, y.c), x.q)
    IN  IF sx # sy THEN (IF sx > sy THEN 1 ELSE -1)
        ELSE IF sx = 0 THEN 0
        ELSE IF sx > 0 THEN SCmp(lhs, rhs)
        ELSE SCmp(rhs, lhs)

\* the sign of x + y - r for similarities x, y in root form and a rational r
SumCmp(x, y, r) ==
    LET sx == SSgn(x.c)
        sy == SSgn(y.c)
        cmpabs == SCmp(SMul(SMul(x.c, x.c), y.q), SMul(SMul(y.c, y.c), x.q))
        ss == IF sx >= 0 /\ sy >= 0 THEN (IF sx = 0 /\ sy = 0 THEN 0 ELSE 1)
              ELSE IF sx <= 0 /\ sy <= 0 THEN -1
              ELSE sx * cmpabs
        sr == SSgn(r.a)
        qq == SMul(x.q, y.q)
        bb == SMul(r.b, r.b)
        mnum == SSub(SMul(SMul(r.a, r.a), qq),
                     SAdd(SMul(bb, SMul(SMul(x.c, x.c), y.q)),
                          SMul(bb, SMul(SMul(y.c, y.c), x.q))))
        sq == CmpRootRat(SMul(SInt(2), SMul(x.c, y.c)), qq, mnum, SMul(bb, qq))
    IN  IF ss # sr THEN (IF ss > sr THEN 1 ELSE -1)
        ELSE IF ss = 0 THEN 0
        ELSE ss * sq

\* abs(x - t) < abs(y - t) for similarities x, y and the target t; a
\* comparison with a NaN is false
AbsDiffLess(x, y, t) ==
    IF x.kind = "nan" \/ y.kind = "nan" THEN FALSE
    ELSE LET rx == RootOf(x)
             ry == RootOf(y)
             tt == RatOf(SInt(t[1]), SInt(t[2]))
             sx == CmpRootRat(rx.c, rx.q, tt.a, tt.b)
             sy == CmpRootRat(ry.c, ry.q, tt.a, tt.b)
             two == RatOf(SMul(SInt(2), tt.a), tt.b)
         IN  IF sx = 0 THEN sy # 0
             ELSE IF sy = 0 THEN FALSE
             ELSE IF sx = 1 /\ sy = 1 THEN CmpRoots(rx, ry) < 0
             ELSE IF sx = -1 /\ sy = -1 THEN CmpRoots(rx, ry) > 0
             ELSE IF sx = 1 THEN SumCmp(rx, ry, two) < 0
             ELSE SumCmp(rx, ry, two) > 0

\* abs(t - x) < ncc_tolerance (line 130)
AbsDiffBelow(x, t, ncc_tol) ==
    IF x.kind = "nan" THEN FALSE
    ELSE LET rx == RootOf(x)
             den == SMul(SInt(t[2]), SBig(TolDen))
             lo == SSub(SMul(SInt(t[1]), SBig(TolDen)), SMul(SInt(t[2]), ncc_tol))
             hi == SAdd(SMul(SInt(t[1]), SBig(TolDen)), SMul(SInt(t[2]), ncc_tol))
         IN  /\ SSgn(ncc_tol) > 0
             /\ CmpRootRat(rx.c, rx.q, lo, den) > 0
             /\ CmpRootRat(rx.c, rx.q, hi, den) < 0

\* (left + right) / 2 (lines 126, 137, 138), exact while the sum is even
Midpoint(left, right) == [neg |-> FALSE, mag |-> BigHalf(BigAdd(left.mag, right.mag))]

\* lines 115-116 for the candidate the call of line 105 returned
candidate_ncc(data, simplified, minval) ==
    IF simplified.err # "" THEN simplified
    ELSE calculate_ncc(data, simplified.val, minval)

\* evaluate_epsilon (lines 105-116)
evaluate_epsilon(data, eps, minval) ==
    candidate_ncc(data, simplify_with_epsilon(data, eps), minval)

\* lines 100-103, 118: the state of the search before its loop; best.inf
\* stands for best_ncc_diff = float('inf'), best.ncc for the similarity
\* whose distance to the target best_ncc_diff is.  Four fields record the
\* run: evals counts the calls of evaluate_epsilon, mids lists the
\* midpoints evaluated at line 127 with their interval and outcome,
\* quarters lists, for each iteration that reached line 139, the outcomes of
\* the quarter points evaluated at lines 139-140 (the left one alone when
\* line 139 raised), and at is the line of the
\* return statement that ended the run (0 before).
search_init(initial_eps) ==
    [stack |-> << [left |-> [neg |-> FALSE, mag |-> BigOf(1048576)],
                   right |-> [neg |-> FALSE, mag |-> TolDen],
                   depth |-> 0] >>,
     best_epsilon |-> initial_eps,
     best |-> [inf |-> TRUE, ncc |-> NccZero],
     status |-> "run",
     err |-> "",
     ret |-> initial_eps,
     evals |-> 0,
     mids |-> <<>>,
     quarters |-> <<>>,
     at |-> 0]

\* lines 100-118 at the entry of an invocation that follows one that ended
\* in the state prev: every local is assigned anew
search_enter_resumed(prev, initial_eps) ==
    [search_init(initial_eps) EXCEPT !.best = prev.best]

search_enter(prev, initial_eps) == search_init(initial_eps)

\* the search state popped of its top interval
popped(st) == [st EXCEPT !.stack = SubSeq(st.stack, 1, Len(st.stack) - 1)]

\* lines 139-145 with the two quarter-point similarities of lines 139-140:
\* the half of the interval whose quarter point is nearer the target is
\* pushed, the left one only when strictly nearer.
\* faulty variant of search_push: the depth of the pushed interval is that
\* of the popped one
search_push_same_depth(target, st, top, mid, ncc_left, ncc_right) ==
    IF ncc_left.err # ""
    THEN [popped(st) EXCEPT !.status = "raise", !.err = ncc_left.err, !.evals = @ + 2,
                            !.quarters = Append(@, <<ncc_left>>)]
    ELSE IF ncc_right.err # ""
    THEN [popped(st) EXCEPT !.status = "raise", !.err = ncc_right.err, !.evals = @ + 3,
                            !.quarters = Append(@, <<ncc_left, ncc_right>>)]
    ELSE [popped(st) EXCEPT
            !.quarters = Append(@, <<ncc_left, ncc_right>>),
            !.stack = Append(@,
                IF AbsDiffLess(ncc_left.val, ncc_right.val, target)
                THEN [left |-> top.left, right |-> mid, depth |-> top.depth]
                ELSE [left |-> mid, right |-> top.right, depth |-> top.depth]),
            !.evals = @ + 3]

\* faulty variant of search_push: the half whose quarter point is farther
\* from the target is pushed
search_push_farther(target, st, top, mid, ncc_left, ncc_right) ==
    IF ncc_left.err # ""
    THEN [popped(st) EXCEPT !.status = "raise", !.err = ncc_left.err, !.evals = @ + 2,
                            !.quarters = Append(@, <<ncc_left>>)]
    ELSE IF ncc_right.err # ""
    THEN [popped(st) EXCEPT !.status = "raise", !.err = ncc_right.err, !.evals = @ + 3,
                            !.quarters = Append(@, <<ncc_left, ncc_right>>)]
    ELSE [popped(st) EXCEPT
            !.quarters = Append(@, <<ncc_left, ncc_right>>),
            !.stack = Append(@,
                IF AbsDiffLess(ncc_right.val, ncc_left.val, target)
                THEN [left |-> top.left, right |-> mid, depth |-> top.depth + 1]
                ELSE [left |-> mid, right |-> top.right, depth |-> top.depth + 1]),
            !.evals = @ + 3]

\* faulty variant of search_push: the left half is pushed also when the two
\* quarter points are equally near
search_push_ties_left(target, st, top, mid, ncc_left, ncc_right) ==
    IF ncc_left.err # ""
    THEN [popped(st) EXCEPT !.status = "raise", !.err = ncc_left.err, !.evals = @ + 2,
                            !.quarters = Append(@, <<ncc_left>>)]
    ELSE IF ncc_right.err # ""
    THEN [popped(st) EXCEPT !.status = "raise", !.err = ncc_right.err, !.evals = @ + 3,
                            !.quarters = Append(@, <<ncc_left, ncc_right>>)]
    ELSE [popped(st) EXCEPT
            !.quarters = Append(@, <<ncc_left, ncc_right>>),
            !.stack = Append(@,
                IF ~AbsDiffLess(ncc_right.val, ncc_left.val, target)
                THEN [left |-> top.left, right |-> mid, depth |-> top.depth + 1]
                ELSE [left |-> mid, right |-> top.right, depth |-> top.depth + 1]),
            !.evals = @ + 3]

search_push(target, st, top, mid, ncc_left, ncc_right) ==
    IF ncc_left.err # ""
    THEN [popped(st) EXCEPT !.status = "raise", !.err = ncc_left.err, !.evals = @ + 2,
                            !.quarters = Append(@, <<ncc_left>>)]
    ELSE IF ncc_right.err # ""
    THEN [popped(st) EXCEPT !.status = "raise", !.err = ncc_right.err, !.evals = @ + 3,
                            !.quarters = Append(@, <<ncc_left, ncc_right>>)]
    ELSE [popped(st) EXCEPT
            !.quarters = Append(@, <<ncc_left, ncc_right>>),
            !.stack = Append(@,
                IF AbsDiffLess(ncc_left.val, ncc_right.val, target)
                THEN [left |-> top.left, right |-> mid, depth |-> top.depth + 1]
                ELSE [left |-> mid, right |-> top.right, depth |-> top.depth + 1]),
            !.evals = @ + 3]

\* lines 133-135: the best tolerance so far, replaced when ncc is strictly
\* nearer the target.
\* faulty variant of search_best: replaced also when ncc is as near
search_best_latest(target, st, mid, ncc) ==
    IF /\ ncc.kind # "nan"
       /\ (st.best.inf \/ ~AbsDiffLess(st.best.ncc, ncc, target))
    THEN [st EXCEPT !.best_epsilon = mid, !.best = [inf |-> FALSE, ncc |-> ncc]]
    ELSE st

search_best(target, st, mid, ncc) ==
    IF /\ ncc.kind # "nan"
       /\ (st.best.inf \/ AbsDiffLess(ncc, st.best.ncc, target))
    THEN [st EXCEPT !.best_epsilon = mid, !.best = [inf |-> FALSE, ncc |-> ncc]]
    ELSE st

\* the midpoint mid of the interval top evaluated, with its outcome
search_seen(st, top, mid, ncc) ==
    [st EXCEPT !.mids = Append(@, [eps |-> mid, ncc |-> ncc, top |-> top])]

\* lines 127-140 with mid and its similarity ncc (lines 126-127).
\* faulty variant of search_mid: no return at lines 130-131
search_mid_no_exit(data, target, ncc_tol, minval, st, top, mid, ncc) ==
    IF ncc.err # ""
    THEN [popped(search_seen(st, top, mid, ncc)) EXCEPT
            !.status = "raise", !.err = ncc.err, !.evals = @ + 1]
    ELSE search_push(target,
                     search_best(target, search_seen(st, top, mid, ncc), mid, ncc.val),
                     top, mid,
                     evaluate_epsilon(data, Midpoint(top.left, mid), minval),
                     evaluate_epsilon(data, Midpoint(mid, top.right), minval))

search_mid(data, target, ncc_tol, minval, st, top, mid, ncc) ==
    IF ncc.err # ""
    THEN [popped(search_seen(st, top, mid, ncc)) EXCEPT
            !.status = "raise", !.err = ncc.err, !.evals = @ + 1]
    ELSE IF AbsDiffBelow(ncc.val, target, ncc_tol)
    THEN [popped(search_seen(st, top, mid, ncc)) EXCEPT
            !.status = "return", !.ret = mid, !.evals = @ + 1, !.at = 131]
    ELSE search_push(target,
                     search_best(target, search_seen(st, top, mid, ncc), mid, ncc.val),
                     top, mid,
                     evaluate_epsilon(data, Midpoint(top.left, mid), minval),
                     evaluate_epsilon(data, Midpoint(mid, top.right), minval))

\* lines 121-126 with the interval top popped at line 121
search_top(data, target, max_iter, ncc_tol, minval, st, top, mid) ==
    IF top.depth >= max_iter \/ SCmp(SSub(top.right, top.left), ncc_tol) < 0
    THEN popped(st)
    ELSE search_mid(data, target, ncc_tol, minval, st, top, mid,
                    evaluate_epsilon(data, mid, minval))

\* one iteration of the while loop (lines 120-145); status becomes "return"
\* at line 131 and "raise" when an evaluation raises
search_step(data, target, max_iter, ncc_tol, minval, st) ==
    search_top(data, target, max_iter, ncc_tol, minval, st,
               st.stack[Len(st.stack)],
               Midpoint(st.stack[Len(st.stack)].left, st.stack[Len(st.stack)].right))

\* line 147: the loop is left with the stack empty
search_fallback(st) ==
    [st EXCEPT !.status = "return", !.ret = st.best_epsilon, !.at = 147]

RECURSIVE search_loop(_, _, _, _, _, _)
search_loop(data, target, max_iter, ncc_tol, minval, st) ==
    IF st.status # "run" THEN st
    ELSE IF st.stack = <<>> THEN search_fallback(st)
    ELSE search_loop(data, target, max_iter, ncc_tol, minval,
                     search_step(data, target, max_iter, ncc_tol, minval, st))

\* line 147, or the exception that ended the loop
search_result(st) ==
    IF st.status = "raise" THEN Raise(st.err) ELSE Ok(st.ret)

find_optimal_epsilon(data, target, initial_eps, max_iter, ncc_tol, minval) ==
    search_result(search_loop(data, target, max_iter, ncc_tol, minval,
                              search_init(initial_eps)))

(***************************************************************************)
(* State.                                                                  *)
(*   points, tol, stack, result, pc, out: one run of the work loop of      *)
(*     _douglas_peucker_iterative on the point list points with epsilon    *)
(*     tol (SpecDP);                                                       *)
(*   heap, epsilon, target_ncc, last: the CurveData objects the caller     *)
(*     holds (a reference is an index of heap), the two fields of one      *)
(*     CurveSimplifier instance, and the outcome of the latest call (Spec);*)
(*   sargs, search, returned: the arguments of one call under way, the     *)
(*     locals of _find_optimal_epsilon while its loop runs, and what the   *)
(*     calls made so far returned or raised (SpecSearch, SpecCall,         *)
(*     SpecFormat);                                                        *)
(*   plotter, figures: the BasePlotter objects of a program, each with its *)
(*     fig and ax fields and its position in the call under way, and the   *)
(*     figures pyplot holds open, with the number created so far and the   *)
(*     calls of show() waiting in the event loop                           *)
(*     (SpecPlot);                                                         *)
(*   threads, instances: the threads that call simplify, each with its     *)
(*     position in the call, and the CurveSimplifier instances they call   *)
(*     it on (SpecThreads).                                                *)
(***************************************************************************)
VARIABLES points, tol, stack, result, pc, out,
          heap, epsilon, target_ncc, last,
          sargs, search, returned,
          plotter, figures,
          threads, instances

dpvars == <<points, tol, stack, result, pc, out>>
instvars == <<heap, epsilon, target_ncc, last>>
callvars == <<sargs, search, returned>>
plotvars == <<plotter, figures>>
threadvars == <<threads, instances>>
vars == <<points, tol, stack, result, pc, out,
          heap, epsilon, target_ncc, last,
          sargs, search, returned,
          plotter, figures,
          threads, instances>>

\* self.epsilon = None (line 80)
None == [neg |-> FALSE, mag |-> <<>>, none |-> TRUE]

\* the outcome of a call: the operation, the reference it was given when it
\* returns a curve (<<>> otherwise), the exception it raised ("" for none),
\* the reference it returned (0 for none) and whether _find_optimal_epsilon
\* ran in it
Call(op, arg, err, ret, searched) ==
    [op |-> op, arg |-> arg, err |-> err, ret |-> ret, searched |-> searched]

NoCall == Call("none", <<>>, "", 0, FALSE)

(***************************************************************************)
(* Bounds of the inputs.                                                   *)
(***************************************************************************)
MaxLen == 4
MaxTolHalves == 2
XSteps == {0, 1}
YValues == {0, 1, 2}

\* the x sequences 0, 0 + s1, 0 + s1 + s2, ... with steps in XSteps
RECURSIVE XSeqs(_)
XSeqs(n) ==
    IF n = 0 THEN {<<>>}
    ELSE IF n = 1 THEN {<<0>>}
    ELSE {Append(xs, xs[n - 1] + s) : xs \in XSeqs(n - 1), s \in XSteps}

\* the point lists of length n: non-decreasing x, any y in YValues
PointLists(n) ==
    {[i \in 1..n |-> <<xs[i], ys[i]>>] : xs \in XSeqs(n), ys \in [1..n -> YValues]}

\* -1/2, 0, 1/2, 1, ... and the first midpoint of the search, (1e-6 + 1.0) / 2
DPTolerances ==
    {HalfUnits(k) : k \in -1..MaxTolHalves}
    \cup {[neg |-> FALSE, mag |-> BigHalf(BigAdd(BigOf(1048576), TolDen))]}

DPIdle ==
    /\ points = <<>> /\ tol = None /\ stack = <<>> /\ result = <<>>
    /\ pc = "idle" /\ out = Ok(<<>>)

InstIdle ==
    /\ heap = <<>> /\ epsilon = None /\ target_ncc = <<0, 1>>
    /\ last = NoCall

CallIdle ==
    /\ sargs = [op |-> "none"] /\ search = [status |-> "idle"]
    /\ returned = <<>>

PlotIdle ==
    plotter = <<>> /\ figures = [open |-> {}, created |-> 0, showing |-> <<>>]

ThreadsIdle == threads = <<>> /\ instances = <<>>

\* lines 227-228
InitDP ==
    /\ \E n \in 0..MaxLen : points \in PointLists(n)
    /\ tol \in DPTolerances
    /\ stack = dp_init(points).stack
    /\ result = dp_init(points).result
    /\ pc = "loop"
    /\ out = Ok(<<>>)
    /\ InstIdle
    /\ CallIdle
    /\ PlotIdle
    /\ ThreadsIdle

\* lines 230-248: one iteration of the while loop
DPIterate ==
    /\ pc = "loop"
    /\ stack # <<>>
    /\ LET s == dp_step(points, tol, stack, result)
       IN  /\ stack' = s.stack
           /\ result' = s.result
    /\ UNCHANGED <<points, tol, pc, out>>
    /\ UNCHANGED instvars
    /\ UNCHANGED callvars
    /\ UNCHANGED plotvars
    /\ UNCHANGED threadvars

\* line 250
DPReturn ==
    /\ pc = "loop"
    /\ stack = <<>>
    /\ out' = dp_return(points, result)
    /\ pc' = "done"
    /\ UNCHANGED <<points, tol, stack, result>>
    /\ UNCHANGED instvars
    /\ UNCHANGED callvars
    /\ UNCHANGED plotvars
    /\ UNCHANGED threadvars

NextDP == DPIterate \/ DPReturn

SpecDP == InitDP /\ [][NextDP]_vars

\* ENABLED <<NextDP>>_vars: the run has not returned (each of its steps
\* changes stack or pc)
DPRunning == pc = "loop"

\* the loop is sequential code: a run under way takes its next step.  This
\* is WF_vars(NextDP), written out with DPRunning for the ENABLED predicate.
SpecDPLive ==
    /\ SpecDP
    /\ \/ []<>(~DPRunning)
       \/ []<><<NextDP>>_vars

(***************************************************************************)
(* The vocabulary of the properties of a finished run (SpecDP).            *)
(***************************************************************************)
N == Len(points)

Done == pc = "done" /\ out.err = ""

\* the retained indices (0-based)
Retained == {result[i] : i \in 1..Len(result)}

\* the squared deviation of point k from the chord of points a and b: the
\* perpendicular distance to the line through a and b, the distance to point
\* a when the two coincide
Dev2(k, a, b) ==
    LET pk == points[k + 1]
        pa == points[a + 1]
        pb == points[b + 1]
        dx == pb[1] - pa[1]
        dy == pb[2] - pa[2]
        cross == dy * pk[1] - dx * pk[2] - pa[1] * dy + pa[2] * dx
    IN  IF pa = pb
        THEN <<(pk[1] - pa[1]) * (pk[1] - pa[1]) + (pk[2] - pa[2]) * (pk[2] - pa[2]), 1>>
        ELSE <<cross * cross, dx * dx + dy * dy>>

\* sqrt(d2) > t
Farther(d2, t) ==
    \/ t.neg
    \/ BigLess(BigMul(BigOf(d2[2]), BigMul(t.mag, t.mag)),
               BigMul(BigOf(d2[1]), TolDenSq))

\* a and b are neighbours in the index set S
Neighbours(S, a, b) ==
    a \in S /\ b \in S /\ a < b /\ \A c \in S : ~(a < c /\ c < b)

\* the index set S keeps every skipped point within t of its local chord
ShapeWithin(S, t) ==
    \A a \in S, b \in S :
        Neighbours(S, a, b) =>
            \A k \in (a + 1)..(b - 1) : ~Farther(Dev2(k, a, b), t)

\* C1: a finished run on a curve of N >= 1 points raises nothing and its
\* output holds the input's point 0 and point N-1 (indices 0 and N-1 are
\* retained, and the output starts and ends with those points).
C1_EndpointsKept ==
    (pc = "done" /\ N >= 1) =>
        /\ out.err = ""
        /\ 0 \in Retained /\ (N - 1) \in Retained
        /\ Len(out.val) >= 1
        /\ out.val[1] = points[1]
        /\ out.val[Len(out.val)] = points[N]

C1_Witness ==
    Done /\ N >= 3 /\ Len(out.val) = 2 /\ points[1] # points[N]

\* C2: in the output at tolerance tol, every input point between two
\* neighbouring retained indices is within tol of the chord between them.
C2_ShapeWithinTolerance ==
    Done => ShapeWithin(Retained, tol)

C2_Witness ==
    /\ Done /\ N >= 4
    /\ \E a \in Retained, b \in Retained :
          /\ Neighbours(Retained, a, b)
          /\ \E k \in (a + 1)..(b - 1) : Dev2(k, a, b)[1] > 0
    /\ \E k \in Retained : 0 < k /\ k < N - 1

\* C3: a tolerance t2 >= tol never retains more points than tol does.
C3_Monotone ==
    Done =>
        \A t2 \in DPTolerances :
            TolLeq(tol, t2) => Len(out.val) >= Len(dp_indices(points, t2))

C3_Witness ==
    /\ Done
    /\ \E t2 \in DPTolerances :
          /\ TolLeq(tol, t2)
          /\ Len(out.val) > Len(dp_indices(points, t2))
          /\ Len(dp_indices(points, t2)) > 2

\* C4: simplifying the output again with the same tolerance returns the
\* same points.
C4_Idempotent ==
    Done => douglas_peucker_iterative(out.val, tol) = out

C4_Witness ==
    Done /\ Len(out.val) >= 3 /\ Len(out.val) < N

\* C6 as claimed: no index set with fewer points that holds both endpoints
\* keeps the shape within tol.
C6_Minimal ==
    (Done /\ N >= 2) =>
        ~\E S \in SUBSET (0..(N - 1)) :
            /\ 0 \in S /\ (N - 1) \in S
            /\ Cardinality(S) < Cardinality(Retained)
            /\ ShapeWithin(S, tol)

\* C6 amended: the output need not have the fewest points, but no point is
\* retained without need: every retained interior point lies farther than
\* tol from the chord between two other retained points around it (the
\* range it split), and when the two endpoints alone keep the shape within
\* tol, only they are retained.
C6_EveryKeptPointNeeded ==
    (Done /\ N >= 2) =>
        /\ \A k \in Retained \ {0, N - 1} :
              \E a \in Retained, b \in Retained :
                  a < k /\ k < b /\ Farther(Dev2(k, a, b), tol)
        /\ ShapeWithin({0, N - 1}, tol) => Retained = {0, N - 1}

\* a finished run whose output is not of minimum size
C6_Witness ==
    /\ Done /\ N >= 4
    /\ \E S \in SUBSET (0..(N - 1)) :
          /\ 0 \in S /\ (N - 1) \in S
          /\ Cardinality(S) < Cardinality(Retained)
          /\ ShapeWithin(S, tol)

\* C7 as claimed: at least one input index is not retained.
C7_StrictSubset ==
    Done => \E i \in 0..(N - 1) : i \notin Retained

\* C7 amended: the retained indices are a subset of the input's indices,
\* not always a strict one: every index is retained when the curve has at
\* most 2 points and when the tolerance is negative.
C7_Subset ==
    (pc = "done" /\ N >= 1) =>
        /\ out.err = ""
        /\ Retained \subseteq 0..(N - 1)
        /\ (N <= 2 \/ tol.neg) => Retained = 0..(N - 1)

C7_Witness ==
    Done /\ N >= 3 /\ Retained = 0..(N - 1) /\ ~tol.neg

\* C8: the output is the input's points at the retained indices, taken in
\* strictly ascending index order, each index once; it is no longer than
\* the input.
C8_Subsequence ==
    Done =>
        /\ Retained \subseteq 0..(N - 1)
        /\ Len(out.val) = Cardinality(Retained)
        /\ Len(out.val) <= N
        /\ \A k \in 1..Len(out.val) :
              \E i \in Retained :
                  /\ Cardinality({j \in Retained : j < i}) = k - 1
                  /\ out.val[k] = points[i + 1]

C8_Witness ==
    /\ Done /\ Len(out.val) >= 3 /\ Len(out.val) < N
    /\ \E i \in 1..(Len(result) - 1) : result[i] > result[i + 1]

\* the points of the curve all lie on one line
Collinear ==
    \A i \in 1..N, j \in 1..N, k \in 1..N :
        (points[j][1] - points[i][1]) * (points[k][2] - points[i][2])
            = (points[k][1] - points[i][1]) * (points[j][2] - points[i][2])

\* tol > 0
TolPositive == ~tol.neg /\ tol.mag # <<>>

\* the first of the interior points farthest from the chord between the
\* curve's first and last point (N >= 3)
FirstFarthest ==
    CHOOSE k \in 1..(N - 2) :
        /\ \A j \in 1..(N - 2) : ~RatGreater(Dev2(j, 0, N - 1), Dev2(k, 0, N - 1))
        /\ \A j \in 1..(k - 1) : RatGreater(Dev2(k, 0, N - 1), Dev2(j, 0, N - 1))

\* C15 as claimed: on a curve whose points are all collinear a run at a
\* tolerance > 0 retains indices 0 and N-1 and nothing else.
C15_CollinearTwoEndpoints ==
    (Done /\ N >= 2 /\ Collinear /\ TolPositive) => Retained = {0, N - 1}

\* C15 amended: on a curve whose points are all collinear a run at a
\* tolerance > 0 retains exactly indices 0 and N-1 when the first and the
\* last point differ; when they coincide the distances are taken to that
\* point (lines 165-167), and the run retains besides the endpoints the
\* first of the interior points farthest from it if that distance exceeds
\* the tolerance, and no other.
C15_CollinearOpenTwoEndpoints ==
    (Done /\ N >= 2 /\ Collinear /\ TolPositive) =>
        IF points[1] # points[N] \/ N = 2
        THEN Retained = {0, N - 1}
        ELSE Retained =
                {0, N - 1} \cup
                {k \in {FirstFarthest} : Farther(Dev2(k, 0, N - 1), tol)}

\* a finished run on four collinear points, not all the same, whose first
\* and last differ
C15_Witness ==
    /\ Done /\ N >= 4 /\ Collinear /\ TolPositive
    /\ points[1] # points[N]
    /\ \E k \in 2..(N - 1) : points[k] # points[1] /\ points[k] # points[N]
    /\ Retained = {0, N - 1}

\* C16: when the largest distance of an interior point from the chord
\* between the curve's first and last point exceeds the tolerance, the first
\* interior point at that distance is retained, with indices 0 and N-1.
C16_FarthestRetained ==
    (Done /\ N >= 3 /\ Farther(Dev2(FirstFarthest, 0, N - 1), tol)) =>
        /\ FirstFarthest \in Retained
        /\ 0 \in Retained /\ (N - 1) \in Retained

\* a finished run that retains the first farthest point and not a later
\* point as far from the chord
C16_Witness ==
    /\ Done /\ N >= 4 /\ TolPositive
    /\ FirstFarthest \in Retained
    /\ \E k \in (FirstFarthest + 1)..(N - 2) :
          /\ Dev2(k, 0, N - 1) = Dev2(FirstFarthest, 0, N - 1)
          /\ k \notin Retained

\* the first of the points strictly between a and b farthest from the chord
\* of a and b (b - a >= 2)
FarthestIn(a, b) ==
    CHOOSE k \in (a + 1)..(b - 1) :
        /\ \A j \in (a + 1)..(b - 1) : ~RatGreater(Dev2(j, a, b), Dev2(k, a, b))
        /\ \A j \in (a + 1)..(k - 1) : RatGreater(Dev2(k, a, b), Dev2(j, a, b))

\* sqrt(d2) = t
AsFar(d2, t) ==
    /\ ~t.neg
    /\ BigMul(BigOf(d2[2]), BigMul(t.mag, t.mag)) = BigMul(BigOf(d2[1]), TolDenSq)

\* C23: an iteration that pops a range (a, b) with interior points splits
\* it at the smallest index among the interior points farthest from the
\* chord, and only if that distance is strictly greater than the tolerance:
\* the index is appended to the retained list and the two halves are
\* pushed; otherwise, a distance equal to the tolerance included, the range
\* is dropped and nothing is retained.
C23_FirstMaxStrictSplit ==
    [][(pc = "loop" /\ stack # <<>>) =>
          LET a == stack[Len(stack)][1]
              b == stack[Len(stack)][2]
              rest == SubSeq(stack, 1, Len(stack) - 1)
          IN  IF b - a >= 2 /\ Farther(Dev2(FarthestIn(a, b), a, b), tol)
              THEN /\ result' = Append(result, FarthestIn(a, b))
                   /\ stack' = rest \o << <<a, FarthestIn(a, b)>>,
                                           <<FarthestIn(a, b), b>> >>
              ELSE /\ result' = result
                   /\ stack' = rest]_vars

\* the first iteration has split the whole range at the first of two
\* equally far interior points, at a tolerance > 0
C23_Witness ==
    /\ pc = "loop" /\ N >= 4 /\ TolPositive
    /\ Len(result) = 3
    /\ result[3] = FirstFarthest
    /\ stack = << <<0, result[3]>>, <<result[3], N - 1>> >>
    /\ \E k \in (FirstFarthest + 1)..(N - 2) :
          Dev2(k, 0, N - 1) = Dev2(FirstFarthest, 0, N - 1)

\* the number of splits so far, and of iterations (pops) so far: the stack
\* starts with one range, a pop takes one off and a split puts two on
Splits == Len(result) - 2
Pops == 1 + 2 * Splits - Len(stack)

\* C27, the invariant of the work loop on a curve of N >= 2 points
WorkLoopInvariant ==
    N >= 2 =>
        /\ \A i \in 1..Len(stack) :
              /\ stack[i][1] < stack[i][2]
              /\ stack[i][1] \in Retained /\ stack[i][2] \in Retained
        /\ \A i \in 1..Len(stack), j \in 1..Len(stack) :
              i < j => \/ stack[i][2] <= stack[j][1]
                       \/ stack[j][2] <= stack[i][1]
        /\ \A i \in 1..Len(result), j \in 1..Len(result) :
              i < j => result[i] # result[j]
        /\ Splits <= N - 2
        /\ Pops <= 2 * N - 3

\* C27: for every curve of N >= 2 points every pending range (start, end)
\* has start < end with both ends retained, pending ranges have disjoint
\* interiors, a split index lies strictly between the ends of the range it
\* splits, no index is retained twice, there are at most N-2 splits and
\* 2N-3 pops, and the loop terminates.
C27_WorkLoopTerminates ==
    /\ []WorkLoopInvariant
    /\ [][(N >= 2 /\ result' # result) =>
             /\ stack # <<>>
             /\ result' = Append(result, result'[Len(result')])
             /\ stack[Len(stack)][1] < result'[Len(result')]
             /\ result'[Len(result')] < stack[Len(stack)][2]]_vars
    /\ (pc = "loop") ~> (pc = "done")

\* a run on four points or more has ended after N-2 splits and 2N-3 pops
C27_Witness ==
    /\ Done /\ N >= 4
    /\ Splits = N - 2
    /\ Pops = 2 * N - 3
    /\ ~tol.neg

(***************************************************************************)
(* The work loop with the pending ranges taken in any order                *)
(* (SpecDPAnyOrder): the range at position i is moved to the top of the    *)
(* stack and the iteration of lines 231-248 runs on it.                    *)
(***************************************************************************)
MovedToTop(stk, i) ==
    SubSeq(stk, 1, i - 1) \o SubSeq(stk, i + 1, Len(stk)) \o <<stk[i]>>

DPIterateAny ==
    /\ pc = "loop"
    /\ stack # <<>>
    /\ \E i \in 1..Len(stack) :
          /\ stack' = dp_step(points, tol, MovedToTop(stack, i), result).stack
          /\ result' = dp_step(points, tol, MovedToTop(stack, i), result).result
    /\ UNCHANGED <<points, tol, pc, out>>
    /\ UNCHANGED instvars
    /\ UNCHANGED callvars
    /\ UNCHANGED plotvars
    /\ UNCHANGED threadvars

NextDPAnyOrder == DPIterateAny \/ DPReturn

SpecDPAnyOrder == InitDP /\ [][NextDPAnyOrder]_vars

\* the classical recursive definition on the range (a, b): both ends are
\* kept, and when the first farthest interior point is farther from the
\* chord than the tolerance it is kept and both halves are treated alike
RECURSIVE ClassicalKeep(_, _)
ClassicalKeep(a, b) ==
    IF b - a < 2 THEN {a, b} \cap 0..(N - 1)
    ELSE IF Farther(Dev2(FarthestIn(a, b), a, b), tol)
    THEN ClassicalKeep(a, FarthestIn(a, b)) \cup ClassicalKeep(FarthestIn(a, b), b)
    ELSE {a, b}

\* C25: for every curve and tolerance the run returns, and its key points
\* are those of the classical recursive definition (none for the empty
\* curve), whatever the order in which the pending ranges are taken.
C25_ClassicalResult ==
    pc = "done" =>
        /\ out.err = ""
        /\ Retained = ClassicalKeep(0, N - 1)

\* On every curve of at least 1 point, for every tolerance, the run returns
\* the key points of the classical recursive definition, whatever the order
\* in which the pending ranges are taken: the same as with the last range
\* pushed taken first, as the code does.  The empty curve is where the
\* statement of C25 fails.
C25_ClassicalResultFromOnePoint ==
    (pc = "done" /\ N >= 1) =>
        /\ out.err = ""
        /\ Retained = ClassicalKeep(0, N - 1)
        /\ sorted_set(result) = dp_indices(points, tol)
        /\ out = douglas_peucker_iterative(points, tol)

\* the whole range has been split and its lower half taken before its
\* upper half, which is still pending and has an interior point
C25_Witness ==
    /\ pc = "loop" /\ N >= 4
    /\ Len(result) = 3
    /\ stack = << <<result[3], N - 1>> >>
    /\ N - 1 - result[3] >= 2

(***************************************************************************)
(* One CurveSimplifier instance and the CurveData objects of its caller    *)
(* (Spec).                                                                 *)
(***************************************************************************)
MaxPts == 3
MaxHeap == 3
CurveYs == {0, 1}

\* the least number of entries interp1d accepts, by SciPy version
MinVals == {1, 2}

\* the defaults of _find_optimal_epsilon (lines 83-85): 1.0, 50, 1e-4
initial_epsilon == [neg |-> FALSE, mag |-> TolDen]
max_iterations == 50
\* faulty variant of ncc_tolerance: 1e-5
ncc_tolerance_fine == [neg |-> FALSE, mag |-> BigOf(10485760)]

ncc_tolerance == [neg |-> FALSE, mag |-> BigOf(104857600)]

\* target_ncc: the default 0.995 (line 71), and 1
Targets == {<<995, 1000>>, <<1, 1>>}

\* the tolerances a caller assigns to epsilon: 0 and 1
PresetEps == {HalfUnits(0), HalfUnits(2)}

\* the curves of at most MaxPts points: strictly ascending x below MaxPts,
\* any y in CurveYs
Curves ==
    UNION {{CurveData(SortedSeq(S), ys) : ys \in [1..Cardinality(S) -> CurveYs]} :
           S \in SUBSET (0..(MaxPts - 1))}

\* the curves the caller starts with: x = 0, 1, 2, ...
CallerCurves == {d \in Curves : \A i \in 1..Len(d.x) : d.x[i] = i - 1}

\* CurveData objects whose x and y may differ in length: x = 0, 1, 2, ...
\* of at most MaxPts entries, y any sequence of at most MaxPts values
RaggedCurves ==
    UNION {{CurveData([i \in 1..nx |-> i - 1], ys) : ys \in [1..ny -> CurveYs]} :
           nx \in 0..MaxPts, ny \in 0..MaxPts}

CallCurves == Curves \cup RaggedCurves

\* self._find_optimal_epsilon(data) of line 189, with self.target_ncc the
\* target: a function of the curve, the target and the SciPy in use
optimal_epsilon ==
    [d \in CallCurves, t \in Targets, m \in MinVals |->
        find_optimal_epsilon(d, t, initial_epsilon, max_iterations,
                             ncc_tolerance, m)]

\* lines 189 and 191 with the outcome of the search, or the stored
\* tolerance: the value of self.epsilon after the call, whether the search
\* ran, and what the call returns or raises
\* faulty variant of simplify_with: a search that raises leaves the default
\* initial_epsilon in self.epsilon
simplify_with_default_on_error(data, eps, searched, found) ==
    IF found.err # ""
    THEN [epsilon |-> initial_epsilon, searched |-> searched, ret |-> Raise(found.err)]
    ELSE [epsilon |-> found.val, searched |-> searched,
          ret |-> simplify_with_epsilon(data, found.val)]

simplify_with(data, eps, searched, found) ==
    IF found.err # ""
    THEN [epsilon |-> eps, searched |-> searched, ret |-> Raise(found.err)]
    ELSE [epsilon |-> found.val, searched |-> searched,
          ret |-> simplify_with_epsilon(data, found.val)]

\* simplify without the test of line 188: the search runs in every call
simplify_always_search(data, eps, target, minval) ==
    simplify_with(data, eps, TRUE, optimal_epsilon[data, target, minval])

\* simplify (lines 174-191) on an instance whose epsilon is eps and whose
\* target_ncc is target
simplify(data, eps, target, minval) ==
    IF eps = None
    THEN simplify_with(data, eps, TRUE, optimal_epsilon[data, target, minval])
    ELSE simplify_with(data, eps, FALSE, Ok(eps))

\* the result written into the object the call was given
store_result_in_place(h, arg, obj) ==
    [heap |-> [h EXCEPT ![arg] = obj], ref |-> arg]

\* lines 205-208: the result is a CurveData constructed from two new
\* arrays; the object the call was given (arg) is left as it was
store_result(h, arg, obj) ==
    [heap |-> Append(h, obj), ref |-> Len(h) + 1]

Init ==
    /\ heap \in {<<d>> : d \in CallerCurves}
    /\ epsilon = None
    /\ target_ncc \in Targets
    /\ last = NoCall
    /\ DPIdle
    /\ CallIdle
    /\ PlotIdle
    /\ ThreadsIdle

\* the caller's view of a call that returned the curve r.val or raised
\* r.err: a returned curve is an object the caller now holds
Returned(op, ref, r, searched) ==
    IF r.err = ""
    THEN /\ heap' = store_result(heap, ref, r.val).heap
         /\ last' = Call(op, <<ref>>, "", store_result(heap, ref, r.val).ref,
                         searched)
    ELSE /\ heap' = heap
         /\ last' = Call(op, <<ref>>, r.err, 0, searched)

\* simplified = simplifier.simplify(heap[ref])
Simplify ==
    /\ Len(heap) < MaxHeap
    /\ \E ref \in 1..Len(heap), minval \in MinVals :
          \E r \in {simplify(heap[ref], epsilon, target_ncc, minval)} :
             /\ epsilon' = r.epsilon
             /\ Returned("simplify", ref, r.ret, r.searched)
    /\ UNCHANGED target_ncc
    /\ UNCHANGED dpvars
    /\ UNCHANGED callvars
    /\ UNCHANGED plotvars
    /\ UNCHANGED threadvars

\* simplifier._simplify_with_epsilon(heap[ref], e)
SimplifyWithEpsilon ==
    /\ Len(heap) < MaxHeap
    /\ \E ref \in 1..Len(heap), e \in PresetEps :
          Returned("simplify_with_epsilon", ref,
                   simplify_with_epsilon(heap[ref], e), FALSE)
    /\ UNCHANGED <<epsilon, target_ncc>>
    /\ UNCHANGED dpvars
    /\ UNCHANGED callvars
    /\ UNCHANGED plotvars
    /\ UNCHANGED threadvars

\* simplifier._find_optimal_epsilon(heap[ref])
FindOptimalEpsilon ==
    /\ \E ref \in 1..Len(heap), minval \in MinVals :
          last' = Call("find_optimal_epsilon", <<>>,
                       optimal_epsilon[heap[ref], target_ncc, minval].err, 0, TRUE)
    /\ UNCHANGED <<heap, epsilon, target_ncc>>
    /\ UNCHANGED dpvars
    /\ UNCHANGED callvars
    /\ UNCHANGED plotvars
    /\ UNCHANGED threadvars

\* CurveSimplifier.calculate_ncc(heap[ref1], heap[ref2])
CalculateNcc ==
    /\ \E ref1 \in 1..Len(heap), ref2 \in 1..Len(heap), minval \in MinVals :
          last' = Call("calculate_ncc", <<>>,
                       calculate_ncc(heap[ref1], heap[ref2], minval).err, 0, FALSE)
    /\ UNCHANGED <<heap, epsilon, target_ncc>>
    /\ UNCHANGED dpvars
    /\ UNCHANGED callvars
    /\ UNCHANGED plotvars
    /\ UNCHANGED threadvars

\* simplifier.epsilon = e
SetEpsilon ==
    /\ \E e \in PresetEps :
          /\ epsilon' = e
          /\ last' = Call("set_epsilon", <<>>, "", 0, FALSE)
    /\ UNCHANGED <<heap, target_ncc>>
    /\ UNCHANGED dpvars
    /\ UNCHANGED callvars
    /\ UNCHANGED plotvars
    /\ UNCHANGED threadvars

\* simplifier.target_ncc = t
SetTarget ==
    /\ \E t \in Targets :
          /\ target_ncc' = t
          /\ last' = Call("set_target_ncc", <<>>, "", 0, FALSE)
    /\ UNCHANGED <<heap, epsilon>>
    /\ UNCHANGED dpvars
    /\ UNCHANGED callvars
    /\ UNCHANGED plotvars
    /\ UNCHANGED threadvars

Next ==
    \/ Simplify
    \/ SimplifyWithEpsilon
    \/ FindOptimalEpsilon
    \/ CalculateNcc
    \/ SetEpsilon
    \/ SetTarget

Spec == Init /\ [][Next]_vars

(***************************************************************************)
(* The properties of the calls on one instance (Spec).                     *)
(***************************************************************************)
\* the curve the latest call was given
LastInput == heap[last.arg[1]]

\* C5: for every curve of at most 2 points (0, 1 or 2) simplify returns a
\* curve equal to its input, the same x and y sequences, and signals no
\* error, on a fresh instance whose search runs first as on any other.
C5_ShortCurveReturned ==
    (last.op = "simplify" /\ Len(LastInput.x) <= 2)
        => (last.err = "" /\ heap[last.ret] = LastInput)

\* C9: no call of simplify, _simplify_with_epsilon, _find_optimal_epsilon
\* or calculate_ncc changes the x or y sequence of a CurveData object that
\* existed before it, and a curve that simplify or _simplify_with_epsilon
\* returns is a new object, none of those that existed.
C9_InputsNotMutated ==
    [][/\ \A r \in 1..Len(heap) : r <= Len(heap') /\ heap'[r] = heap[r]
       /\ (last'.op \in {"simplify", "simplify_with_epsilon"} /\ last'.err = "")
             => (last'.ret \notin 1..Len(heap) /\ last'.ret \in 1..Len(heap'))]_vars

\* a search and a simplification that dropped a point have run on a curve,
\* which the caller still holds
C9_Witness ==
    /\ last.op = "simplify" /\ last.err = "" /\ last.searched
    /\ Len(heap[last.ret].x) < Len(LastInput.x)

\* C10: in a call of simplify the search runs only if the call finds
\* epsilon unset; a call that finds epsilon set, by an earlier call or by the
\* caller, runs no search, leaves epsilon as it is whatever the curve and
\* whatever target_ncc has become, and returns (or raises) what
\* _simplify_with_epsilon gives for the curve and the stored epsilon.
C10_SetOnceCache ==
    [][(last'.op = "simplify") =>
          /\ last'.searched => epsilon = None
          /\ epsilon # None =>
                /\ epsilon' = epsilon
                /\ \E r \in {simplify_with_epsilon(heap[last'.arg[1]], epsilon)} :
                      IF r.err = ""
                      THEN last'.err = "" /\ heap'[last'.ret] = r.val
                      ELSE last'.err = r.err]_vars

\* a call of simplify has reused a tolerance that an earlier call's search
\* resolved
C10_Witness ==
    /\ last.op = "simplify" /\ last.err = "" /\ ~last.searched
    /\ epsilon # None /\ epsilon \notin PresetEps
    /\ Len(LastInput.x) >= 3

\* C28: a call of simplify in which the search ran and that raised was made
\* with epsilon None, leaves epsilon None, returns no curve and leaves the
\* caller's objects as they were; and every call of simplify made with
\* epsilon None runs the search, the one after such a failure included.
C28_FailedSearchStoresNothing ==
    /\ [][(last'.op = "simplify" /\ last'.searched /\ last'.err # "")
            => /\ epsilon = None /\ epsilon' = None
               /\ last'.ret = 0
               /\ heap' = heap]_vars
    /\ [][(last'.op = "simplify" /\ epsilon = None) => last'.searched]_vars
    /\ []((last.op = "simplify" /\ last.searched /\ last.err # "")
            => epsilon = None)

\* a call of simplify on a curve of one point has raised in its search, on an
\* instance that holds no tolerance
C28_Witness ==
    /\ last.op = "simplify" /\ last.searched /\ last.err = "ValueError"
    /\ epsilon = None
    /\ Len(LastInput.x) = 1

(***************************************************************************)
(* One invocation after another of _find_optimal_epsilon(heap[1]) on one   *)
(* instance, its while loop taken one iteration at a time (SpecSearch).    *)
(* The caller stores a tolerance returned in the instance's epsilon, as    *)
(* line 189 does, and invokes the method in turn with two depth limits;    *)
(* returned lists the invocations that ended: their arguments, the         *)
(* instance's epsilon during them and their outcome.                       *)
(***************************************************************************)
MaxSearches == 3

\* max_iterations and ncc_tolerance of the invocations: the defaults, a
\* depth limit of 2, of 1 and of 0, and an ncc_tolerance of 1/2
SearchLimits ==
    {[max_iter |-> max_iterations, ncc_tol |-> ncc_tolerance],
     [max_iter |-> 2, ncc_tol |-> ncc_tolerance],
     [max_iter |-> 1, ncc_tol |-> ncc_tolerance],
     [max_iter |-> 0, ncc_tol |-> ncc_tolerance],
     [max_iter |-> max_iterations, ncc_tol |-> HalfUnits(1)]}

\* the arguments of the invocations and the SciPy in use
SearchArgs ==
    {[op |-> "find_optimal_epsilon", initial_eps |-> initial_epsilon,
      max_iter |-> l.max_iter, ncc_tol |-> l.ncc_tol, minval |-> m] :
        l \in SearchLimits, m \in MinVals}

\* lines 100-118 of the first invocation
InitSearch ==
    /\ heap \in {<<d>> : d \in CallerCurves}
    /\ epsilon \in {None, HalfUnits(1)}
    /\ target_ncc \in Targets
    /\ last = NoCall
    /\ sargs \in SearchArgs
    /\ search = search_init(sargs.initial_eps)
    /\ returned = <<>>
    /\ DPIdle
    /\ PlotIdle
    /\ ThreadsIdle

\* lines 120-145: one iteration of the while loop
SearchIterate ==
    /\ search.status = "run"
    /\ search.stack # <<>>
    /\ search' = search_step(heap[1], target_ncc, sargs.max_iter, sargs.ncc_tol,
                             sargs.minval, search)
    /\ UNCHANGED <<sargs, returned>>
    /\ UNCHANGED instvars
    /\ UNCHANGED dpvars
    /\ UNCHANGED plotvars
    /\ UNCHANGED threadvars

\* line 147
SearchFallback ==
    /\ search.status = "run"
    /\ search.stack = <<>>
    /\ search' = search_fallback(search)
    /\ UNCHANGED <<sargs, returned>>
    /\ UNCHANGED instvars
    /\ UNCHANGED dpvars
    /\ UNCHANGED plotvars
    /\ UNCHANGED threadvars

\* the caller receives the outcome, stores a tolerance returned in epsilon
\* and invokes the method again, with the arguments of the invocation
\* before the one that ended (after the first: with another depth limit)
SearchAgain ==
    /\ search.status \in {"return", "raise"}
    /\ Len(returned) < MaxSearches - 1
    /\ returned' = Append(returned, [args |-> sargs, epsilon |-> epsilon,
                                     outcome |-> search_result(search)])
    /\ epsilon' = IF search.status = "return" THEN search.ret ELSE epsilon
    /\ sargs' = IF returned = <<>>
                    THEN [sargs EXCEPT !.max_iter = IF @ = 1 THEN 2 ELSE 1]
                    ELSE returned[Len(returned)].args
    /\ search' = search_enter(search, sargs'.initial_eps)
    /\ UNCHANGED <<heap, target_ncc, last>>
    /\ UNCHANGED dpvars
    /\ UNCHANGED plotvars
    /\ UNCHANGED threadvars

NextSearch == SearchIterate \/ SearchFallback \/ SearchAgain

SpecSearch == InitSearch /\ [][NextSearch]_vars

\* ENABLED <<SearchIterate \/ SearchFallback>>_vars: an invocation is under
\* way (each of its steps changes search)
SearchRunning == search.status = "run"

\* the loop is sequential code: an invocation under way takes its next
\* step.  This is WF_vars(SearchIterate \/ SearchFallback), written out with
\* SearchRunning for the ENABLED predicate.
SpecSearchLive ==
    /\ SpecSearch
    /\ \/ []<>(~SearchRunning)
       \/ []<><<SearchIterate \/ SearchFallback>>_vars

(***************************************************************************)
(* The properties of the search (SpecSearch, SpecSearchLive).              *)
(***************************************************************************)
\* the midpoints of this invocation whose evaluation returned a similarity
Scored == {i \in 1..Len(search.mids) : search.mids[i].ncc.err = ""}

\* abs(target_ncc - ncc) < ncc_tolerance for the i-th midpoint
Accepted(i) ==
    AbsDiffBelow(search.mids[i].ncc.val, target_ncc, sargs.ncc_tol)

\* the i-th midpoint's similarity is strictly nearer the target than the j-th's
Nearer(i, j) ==
    AbsDiffLess(search.mids[i].ncc.val, search.mids[j].ncc.val, target_ncc)

\* C11, the bounds: every midpoint evaluated belongs to an interval of
\* depth < max_iterations and width >= ncc_tolerance, the stack never holds
\* more than one interval, and an invocation evaluates at most
\* max_iterations midpoints and 3 * max_iterations similarities.
SearchBounded ==
    /\ Len(search.stack) <= 1
    /\ Len(search.mids) <= sargs.max_iter
    /\ search.evals <= 3 * sargs.max_iter
    /\ \A i \in 1..Len(search.mids) :
          /\ search.mids[i].top.depth < sargs.max_iter
          /\ search.mids[i].top.depth = i - 1
          /\ SCmp(SSub(search.mids[i].top.right, search.mids[i].top.left),
                  sargs.ncc_tol) >= 0

\* C11: the search terminates for every curve, the constant ones whose
\* similarity is 0 at every evaluation included: the bounds above hold
\* throughout, and an invocation under way comes to return or raise.
C11_SearchTerminates ==
    /\ []SearchBounded
    /\ (search.status = "run") ~> (search.status \in {"return", "raise"})

\* an invocation on a constant curve (every similarity 0) has ended at the
\* depth limit, with max_iterations midpoints and 3 * max_iterations
\* similarities evaluated
C11_Witness ==
    /\ search.status = "return"
    /\ sargs.max_iter = 2
    /\ Len(search.mids) = sargs.max_iter
    /\ search.evals = 3 * sargs.max_iter
    /\ \A i \in Scored : search.mids[i].ncc.val = NccZero

\* C12: a midpoint whose similarity is within ncc_tolerance of the target
\* is the last thing the invocation evaluates: the invocation has returned
\* at line 131 with that midpoint, and before it every iteration evaluated
\* its midpoint and two quarter points, none of those midpoints accepted.
C12_EarlyExit ==
    \A i \in Scored :
        Accepted(i) =>
            /\ i = Len(search.mids)
            /\ search.status = "return"
            /\ search.at = 131
            /\ search.ret = search.mids[i].eps
            /\ search.evals = 3 * (i - 1) + 1
            /\ search.stack = <<>>

\* an invocation has returned early at its second midpoint or later
C12_Witness ==
    /\ search.status = "return" /\ search.at = 131
    /\ Len(search.mids) >= 2
    /\ Accepted(Len(search.mids))

\* C13: an invocation that returns at line 147 returns the evaluated
\* midpoint whose similarity is nearest the target, the earliest of those
\* equally near, and the initial_epsilon argument if and only if it
\* evaluated no midpoint.
C13_FallbackBest ==
    (search.status = "return" /\ search.at = 147) =>
        /\ Scored = 1..Len(search.mids)
        /\ \A i \in Scored : search.mids[i].ncc.val.kind = "num"
        /\ (search.ret = sargs.initial_eps) <=> (Scored = {})
        /\ Scored # {} =>
              \E i \in Scored :
                  /\ search.ret = search.mids[i].eps
                  /\ \A j \in Scored : ~Nearer(j, i)
                  /\ \A j \in Scored : j < i => Nearer(i, j)

\* an invocation has returned at line 147 a midpoint that is neither the
\* first nor the last it evaluated
C13_Witness ==
    /\ search.status = "return" /\ search.at = 147
    /\ Len(search.mids) >= 3
    /\ search.ret # search.mids[1].eps
    /\ search.ret # search.mids[Len(search.mids)].eps

LeftHalf(st, i) ==
    [left |-> st.mids[i].top.left, right |-> st.mids[i].eps,
     depth |-> st.mids[i].top.depth + 1]

RightHalf(st, i) ==
    [left |-> st.mids[i].eps, right |-> st.mids[i].top.right,
     depth |-> st.mids[i].top.depth + 1]

\* the left quarter point of the i-th interval is strictly nearer the target
\* than the right one
LeftQuarterNearer(st, i) ==
    AbsDiffLess(st.quarters[i][1].val, st.quarters[i][2].val, target_ncc)

\* C24: the stack never holds more than one interval, and an iteration that
\* evaluates its midpoint and neither returns nor raises leaves on the stack
\* exactly one interval, of depth + 1: the left half of the popped one if
\* the left quarter point is strictly nearer the target, the right half
\* otherwise; the intervals processed are nested, each a half of the one
\* before.
C24_GreedyDescent ==
    /\ [](Len(search.stack) <= 1)
    /\ [](\A i \in 2..Len(search.mids) :
             search.mids[i].top \in {LeftHalf(search, i - 1), RightHalf(search, i - 1)})
    /\ [][(/\ search.status = "run" /\ search'.status = "run"
           /\ Len(search'.mids) = Len(search.mids) + 1)
             => /\ Len(search'.quarters) = Len(search.mids) + 1
                /\ Len(search'.quarters[Len(search.mids) + 1]) = 2
                /\ search'.stack =
                     << IF LeftQuarterNearer(search', Len(search.mids) + 1)
                        THEN LeftHalf(search', Len(search.mids) + 1)
                        ELSE RightHalf(search', Len(search.mids) + 1) >>]_vars

\* a descent has taken a left half and a right half, the right half once
\* on quarter points equally near the target
C24_Witness ==
    /\ search.status = "run"
    /\ Len(search.stack) = 1
    /\ Len(search.mids) >= 2
    /\ search.stack[1].left # search.mids[1].top.left
    /\ search.stack[1].right # search.mids[1].top.right
    /\ \E i \in 1..Len(search.quarters) :
          /\ Len(search.quarters[i]) = 2
          /\ search.quarters[i][1].err = "" /\ search.quarters[i][2].err = ""
          /\ ~LeftQuarterNearer(search, i)
          /\ ~AbsDiffLess(search.quarters[i][2].val, search.quarters[i][1].val, target_ncc)

\* the midpoints of this invocation that are the tolerance it returned
ReturnedMids == {b \in Scored : search.ret = search.mids[b].eps}

\* the k-th quarter point of the i-th processed interval has a similarity
\* strictly nearer the target than the b-th midpoint's
QuarterNearer(i, k, b) ==
    /\ search.quarters[i][k].err = ""
    /\ AbsDiffLess(search.quarters[i][k].val, search.mids[b].ncc.val, target_ncc)

\* C29 as claimed: an invocation that returns at line 147 a midpoint it
\* evaluated has evaluated no midpoint and no quarter point whose similarity
\* is strictly nearer the target than that of the midpoint it returns.
C29_NoEvaluationNearer ==
    (search.status = "return" /\ search.at = 147 /\ Scored # {}) =>
        /\ ReturnedMids # {}
        /\ \A b \in ReturnedMids :
              /\ \A i \in Scored : ~Nearer(i, b)
              /\ \A i \in 1..Len(search.quarters) :
                    \A k \in 1..Len(search.quarters[i]) : ~QuarterNearer(i, k, b)

\* C29: an invocation that returns at line 147 a midpoint it evaluated has
\* evaluated no midpoint, and no quarter point of an interval other than
\* the last one it processed, whose similarity is strictly nearer the target
\* than that of the midpoint it returns.
C29_NoEarlierEvaluationNearer ==
    (search.status = "return" /\ search.at = 147 /\ Scored # {}) =>
        /\ ReturnedMids # {}
        /\ \A b \in ReturnedMids :
              /\ \A i \in Scored : ~Nearer(i, b)
              /\ \A i \in 1..(Len(search.quarters) - 1) :
                    \A k \in 1..Len(search.quarters[i]) : ~QuarterNearer(i, k, b)

\* an invocation has returned at line 147 the first of the midpoints it
\* evaluated, after two iterations or more, every quarter point evaluated
C29_Witness ==
    /\ search.status = "return" /\ search.at = 147
    /\ Len(search.quarters) >= 2
    /\ 1 \in ReturnedMids
    /\ \A i \in 1..Len(search.quarters) :
          /\ Len(search.quarters[i]) = 2
          /\ search.quarters[i][1].err = "" /\ search.quarters[i][2].err = ""

\* the invocation has the default max_iterations and ncc_tolerance
DefaultLimits ==
    sargs.max_iter = max_iterations /\ sargs.ncc_tol = ncc_tolerance

\* right - left < ncc_tolerance (line 123) for the interval top
TooNarrow(top) == SCmp(SSub(top.right, top.left), sargs.ncc_tol) < 0

\* C30: with the default parameters, every midpoint evaluated belongs to an
\* interval of depth 0 to 13, an invocation evaluates at most 14 midpoints
\* and 42 similarities, a tolerance returned lies strictly between 1e-6 and
\* 1.0, and every interval popped is of depth below max_iterations: the one
\* the guard of line 123 skips is of depth 14 and too narrow.
C30_DefaultDepth ==
    DefaultLimits =>
        /\ \A i \in 1..Len(search.mids) : search.mids[i].top.depth \in 0..13
        /\ Len(search.mids) <= 14
        /\ search.evals <= 42
        /\ search.status = "return" =>
              /\ SCmp(search.ret, search_init(sargs.initial_eps).stack[1].left) > 0
              /\ SCmp(search.ret, search_init(sargs.initial_eps).stack[1].right) < 0
        /\ \A k \in 1..Len(search.stack) :
              /\ search.stack[k].depth < sargs.max_iter
              /\ search.stack[k].depth <= 14
              /\ TooNarrow(search.stack[k]) <=> search.stack[k].depth = 14

\* an invocation with the default parameters has returned at line 147 after
\* 14 midpoints, the last of depth 13, and 42 similarities
C30_Witness ==
    /\ DefaultLimits
    /\ search.status = "return" /\ search.at = 147
    /\ Len(search.mids) = 14
    /\ search.mids[14].top.depth = 13
    /\ search.evals = 42

(***************************************************************************)
(* One call of calculate_ncc, or of simplify on a new instance, with       *)
(* CurveData objects of any shape (SpecCall).                              *)
(***************************************************************************)
CallArgs ==
    {[op |-> "calculate_ncc", curve1 |-> c1, curve2 |-> c2, minval |-> m] :
        c1 \in CallCurves, c2 \in CallCurves, m \in MinVals}
    \cup
    {[op |-> "simplify", data |-> d, target_ncc |-> t, minval |-> m] :
        d \in CallCurves, t \in Targets, m \in MinVals}

\* the call to come: one of CallArgs, or a curve compared with itself whose
\* x are in any order and may repeat
InitCall ==
    /\ \/ sargs \in CallArgs
       \/ \E n \in 0..MaxPts :
             \E xs \in [1..n -> 0..(MaxPts - 1)], ys \in [1..n -> CurveYs],
                m \in MinVals :
                 sargs = [op |-> "calculate_ncc", curve1 |-> CurveData(xs, ys),
                          curve2 |-> CurveData(xs, ys), minval |-> m]
    /\ returned = <<>>
    /\ search = [status |-> "idle"]
    /\ DPIdle
    /\ InstIdle
    /\ PlotIdle
    /\ ThreadsIdle

\* CurveSimplifier.calculate_ncc(curve1, curve2)
CallCalculateNcc ==
    /\ sargs.op = "calculate_ncc"
    /\ returned = <<>>
    /\ returned' = <<calculate_ncc(sargs.curve1, sargs.curve2, sargs.minval)>>
    /\ UNCHANGED <<sargs, search>>
    /\ UNCHANGED instvars
    /\ UNCHANGED dpvars
    /\ UNCHANGED plotvars
    /\ UNCHANGED threadvars

\* CurveSimplifier(target_ncc).simplify(data)
CallSimplify ==
    /\ sargs.op = "simplify"
    /\ returned = <<>>
    /\ returned' = <<simplify(sargs.data, None, sargs.target_ncc, sargs.minval).ret>>
    /\ UNCHANGED <<sargs, search>>
    /\ UNCHANGED instvars
    /\ UNCHANGED dpvars
    /\ UNCHANGED plotvars
    /\ UNCHANGED threadvars

NextCall == CallCalculateNcc \/ CallSimplify

SpecCall == InitCall /\ [][NextCall]_vars

(***************************************************************************)
(* The properties of one call (SpecCall).                                  *)
(***************************************************************************)
\* the call has ended; what it returned or raised
NccCalled == sargs.op = "calculate_ncc" /\ returned # <<>>
SimplifyCalled == sargs.op = "simplify" /\ returned # <<>>
Outcome == returned[1]

\* x and y of the same length
WellFormed(c) == Len(c.x) = Len(c.y)

\* the values of y are all equal (also when there is none)
YConstant(c) == \A i \in 1..Len(c.y), j \in 1..Len(c.y) : c.y[i] = c.y[j]

\* interp1d accepts the candidate (line 274)
CandidateAccepted ==
    WellFormed(sargs.curve2) /\ Len(sargs.curve2.x) >= sargs.minval

\* the reference's y values are all equal: their standard deviation is 0
ReferenceFlat == Len(sargs.curve1.y) >= 1 /\ YConstant(sargs.curve1)

\* the candidate's values at the reference's x are all equal: their
\* standard deviation is 0
ResampledFlat ==
    /\ WellFormed(sargs.curve2) /\ Len(sargs.curve2.x) >= 1
    /\ Len(sargs.curve1.x) >= 1
    /\ LET sorted == SortedByX(sargs.curve2)
       IN  \A i \in 1..Len(sargs.curve1.x), j \in 1..Len(sargs.curve1.x) :
              /\ ~InterpScaled(sorted, sargs.curve1.x[i]).nan
              /\ InterpScaled(sorted, sargs.curve1.x[i])
                     = InterpScaled(sorted, sargs.curve1.x[j])

\* the similarity c / sqrt(v1 * v2) is 1
IsOne(v) == v.kind = "num" /\ v.c > 0 /\ v.c * v.c = v.v1 * v.v2

\* C17 as claimed: calculate_ncc returns 0 and raises nothing whenever the
\* reference's y values, or the candidate's values at the reference's x,
\* have standard deviation 0.
C17_ZeroStdReturnsZero ==
    (NccCalled /\ (ReferenceFlat \/ ResampledFlat)) => Outcome = Ok(NccZero)

\* C17 amended: when interp1d accepts the candidate (x and y of one length,
\* enough entries) and the reference's y values, or the candidate's values
\* at the reference's x, have standard deviation 0, calculate_ncc returns 0
\* and raises nothing; when interp1d rejects the candidate the call raises,
\* whatever the reference's y values.
C17_AcceptedZeroStdReturnsZero ==
    (NccCalled /\ (ReferenceFlat \/ ResampledFlat)) =>
        IF CandidateAccepted THEN Outcome = Ok(NccZero) ELSE Outcome.err # ""

\* a call whose reference varies and whose candidate is flat has returned 0
C17_Witness ==
    /\ NccCalled /\ ResampledFlat /\ ~ReferenceFlat
    /\ WellFormed(sargs.curve1) /\ Len(sargs.curve1.x) >= 3
    /\ Outcome = Ok(NccZero)

\* C18 as claimed: for every curve calculate_ncc(curve, curve) is 1, or 0
\* when curve.y is constant.
C18_SelfSimilarity ==
    (NccCalled /\ sargs.curve1 = sargs.curve2 /\ WellFormed(sargs.curve1)) =>
        /\ Outcome.err = ""
        /\ IF YConstant(sargs.curve1) THEN Outcome.val = NccZero
           ELSE IsOne(Outcome.val)

\* the x values of the curve are pairwise distinct
XDistinct(c) == \A i \in 1..Len(c.x), j \in 1..Len(c.x) : c.x[i] = c.x[j] => i = j

\* the least x value of the curve occurs more than once
LeastXRepeated(c) ==
    \E i \in 1..Len(c.x), j \in 1..Len(c.x) :
        i # j /\ c.x[i] = c.x[j] /\ \A k \in 1..Len(c.x) : c.x[i] <= c.x[k]

\* C18 amended: for every curve of at least 2 points calculate_ncc(curve,
\* curve) raises nothing and is 0 when curve.y has standard deviation 0
\* (its values all equal), 1 when it has not and the x values are pairwise
\* distinct, in any order, and NaN when it has not and the least x value
\* is repeated; for the empty curve the call raises, and for a curve of
\* one point it returns 0 if interp1d accepts a single entry and raises if
\* not.
C18_SelfSimilarityDistinctX ==
    (NccCalled /\ sargs.curve1 = sargs.curve2 /\ WellFormed(sargs.curve1)) =>
        IF Len(sargs.curve1.x) >= 2
        THEN /\ Outcome.err = ""
             /\ ReferenceFlat => Outcome.val = NccZero
             /\ (~ReferenceFlat /\ XDistinct(sargs.curve1)) => IsOne(Outcome.val)
             /\ (~ReferenceFlat /\ LeastXRepeated(sargs.curve1)) =>
                    Outcome.val = NccNaN
        ELSE IF Len(sargs.curve1.x) = 1 /\ sargs.minval <= 1
        THEN Outcome = Ok(NccZero)
        ELSE Outcome.err # ""

\* a curve of three points, its x distinct and not ascending and its y not
\* constant, has been compared with itself
C18_Witness ==
    /\ NccCalled /\ sargs.curve1 = sargs.curve2 /\ WellFormed(sargs.curve1)
    /\ Len(sargs.curve1.x) >= 3 /\ ~YConstant(sargs.curve1)
    /\ XDistinct(sargs.curve1)
    /\ sargs.curve1.x[1] > sargs.curve1.x[2] /\ sargs.curve1.x[2] < sargs.curve1.x[3]
    /\ IsOne(Outcome.val)

\* C19: calculate_ncc raises, and returns no similarity, whenever the
\* candidate (second argument) has fewer than 2 points.
C19_ShortCandidateRaises ==
    (NccCalled /\ WellFormed(sargs.curve2) /\ Len(sargs.curve2.x) < 2) =>
        Outcome.err # ""

\* C20: given a CurveData whose x and y differ in length, simplify raises,
\* and calculate_ncc raises with that curve as its first or as its second
\* argument.
C20_MismatchedLengthsRaise ==
    /\ (SimplifyCalled /\ ~WellFormed(sargs.data)) => Outcome.err # ""
    /\ (NccCalled /\ (~WellFormed(sargs.curve1) \/ ~WellFormed(sargs.curve2))) =>
          Outcome.err # ""

(***************************************************************************)
(* BasePlotter (static_plot/base.py): the plotters of a single-threaded    *)
(* program, plot() taken one step of its try block at a time and show()    *)
(* from its call to the return of plt.show() (SpecPlot).                   *)
(* A plotter is a record: fig and ax are its two fields (None, or the      *)
(* num-th figure the program created and the axes of that figure); at is   *)
(* step of plot() about to run ("idle" when no call is under way,          *)
(* "except" when a step has raised); block is its position with respect    *)
(* to a with statement; op, err and step are its latest call, the          *)
(* exception that call raised ("" for none) and the step of plot() that    *)
(* raised.  figures.showing lists the plotters whose show() waits in the   *)
(* event loop of an interactive backend, the latest last; while one        *)
(* waits, the calls made are those of callbacks of the event loop.         *)
(***************************************************************************)
MaxFigures == 2

\* the calls of show() that wait in the event loop at a time, a later one
\* started by a callback of an earlier one
MaxShows == 2

\* the plotters of the program
Plotters == {1, 2}

\* __init__ (lines 83-85): fig and ax are None
new_plotter ==
    [fig |-> None, ax |-> None, at |-> "idle", block |-> "out",
     op |-> "__init__", err |-> "", step |-> ""]

\* the try block of plot() (lines 172-192), in order
PlotSteps ==
    <<"validate_data", "create_figure", "prepare_data", "draw_plot",
      "apply_style", "add_elements", "adjust_layout">>

\* the step after name, "idle" when plot() returns
StepAfter(name) ==
    IF name = PlotSteps[Len(PlotSteps)] THEN "idle"
    ELSE PlotSteps[(CHOOSE i \in 1..Len(PlotSteps) : PlotSteps[i] = name) + 1]

\* plt.subplots (line 208) creates a figure and pyplot holds it open
subplots(figs) ==
    [figs EXCEPT !.open = @ \cup {figs.created + 1}, !.created = @ + 1]

\* plt.close('all') (line 409)
close_all(figs) == [figs EXCEPT !.open = {}]

\* close (lines 398-401).
\* faulty variant of close: ax is left as it was
close_keeps_ax(pl) ==
    IF pl.fig # None THEN [pl EXCEPT !.fig = None] ELSE pl

close(pl) ==
    IF pl.fig # None THEN [pl EXCEPT !.fig = None, !.ax = None] ELSE pl

\* cleanup (lines 408-409): close(), then plt.close('all')
cleanup(pl) == close(pl)

\* can the step name of plot() raise for the plotter pl: apply_style
\* returns at once without axes (line 246), adjust_layout does nothing
\* without a figure (line 335)
MayRaise(pl, name) ==
    CASE name = "apply_style" -> pl.ax # None
      [] name = "adjust_layout" -> pl.fig # None
      [] OTHER -> TRUE

\* no call is under way: the program is single-threaded
AllIdle == \A p \in Plotters : plotter[p].at = "idle"

InitPlot ==
    /\ plotter = [p \in Plotters |-> new_plotter]
    /\ figures = [open |-> {}, created |-> 0, showing |-> <<>>]
    /\ DPIdle
    /\ InstIdle
    /\ CallIdle
    /\ ThreadsIdle

\* plotter.plot(data) is called (line 142)
PlotCall(p) ==
    /\ AllIdle
    /\ figures.created < MaxFigures
    /\ plotter' = [plotter EXCEPT ![p] =
                      [@ EXCEPT !.at = PlotSteps[1], !.op = "plot", !.err = "",
                                !.step = ""]]
    /\ UNCHANGED figures
    /\ UNCHANGED <<dpvars, instvars, callvars, threadvars>>

\* one step of the try block (lines 174-192) returns or raises;
\* create_figure (lines 206-211) assigns fig and ax when plt.subplots
\* returns
PlotStep(p) ==
    /\ plotter[p].at \notin {"idle", "except"}
    /\ \E raises \in BOOLEAN :
          /\ raises => MayRaise(plotter[p], plotter[p].at)
          /\ ~raises => ~(plotter[p].at = "add_elements" /\ plotter[p].ax = None)
          /\ IF raises
             THEN /\ plotter' = [plotter EXCEPT ![p] =
                                    [@ EXCEPT !.at = "except", !.step = plotter[p].at]]
                  /\ UNCHANGED figures
             ELSE IF plotter[p].at = "create_figure"
             THEN /\ plotter' = [plotter EXCEPT ![p] =
                                    [@ EXCEPT !.fig = [num |-> subplots(figures).created],
                                              !.ax = [of |-> subplots(figures).created],
                                              !.at = StepAfter(plotter[p].at)]]
                  /\ figures' = subplots(figures)
             ELSE /\ plotter' = [plotter EXCEPT ![p] =
                                    [@ EXCEPT !.at = StepAfter(plotter[p].at)]]
                  /\ UNCHANGED figures
    /\ UNCHANGED <<dpvars, instvars, callvars, threadvars>>

\* lines 194-196: cleanup(), then RuntimeError
PlotExcept(p) ==
    /\ plotter[p].at = "except"
    /\ plotter' = [plotter EXCEPT ![p] =
                      [cleanup(@) EXCEPT !.at = "idle", !.err = "RuntimeError"]]
    /\ figures' = close_all(figures)
    /\ UNCHANGED <<dpvars, instvars, callvars, threadvars>>

\* save (lines 362-379): ValueError without a figure, RuntimeError when the
\* path or savefig fails
Save(p) ==
    /\ AllIdle
    /\ \E fails \in BOOLEAN :
          plotter' = [plotter EXCEPT ![p] =
                         [@ EXCEPT !.op = "save", !.step = "",
                                   !.err = IF plotter[p].fig = None THEN "ValueError"
                                           ELSE IF fails THEN "RuntimeError"
                                           ELSE ""]]
    /\ UNCHANGED figures
    /\ UNCHANGED <<dpvars, instvars, callvars, threadvars>>

\* show() is called (lines 389-391): ValueError without a figure;
\* otherwise plt.show(), which returns at once under a non-interactive
\* backend or with no figure open, and under an interactive one waits in
\* the event loop
Show(p) ==
    /\ AllIdle
    /\ plotter' = [plotter EXCEPT ![p] =
                      [@ EXCEPT !.op = "show", !.step = "",
                                !.err = IF plotter[p].fig = None THEN "ValueError"
                                        ELSE ""]]
    /\ \E interactive \in BOOLEAN :
          IF plotter[p].fig # None /\ interactive /\ figures.open # {}
          THEN /\ Len(figures.showing) < MaxShows
               /\ figures' = [figures EXCEPT !.showing = Append(@, p)]
          ELSE UNCHANGED figures
    /\ UNCHANGED <<dpvars, instvars, callvars, threadvars>>

\* inside plt.show() (line 391), between two callbacks: the user closes the
\* window of an open figure, which pyplot then forgets.  The calls the
\* other actions make while a show() waits are those of callbacks of the
\* event loop.
CloseWindow(n) ==
    /\ AllIdle
    /\ figures.showing # <<>>
    /\ n \in figures.open
    /\ figures' = [figures EXCEPT !.open = @ \ {n}]
    /\ UNCHANGED plotter
    /\ UNCHANGED <<dpvars, instvars, callvars, threadvars>>

\* plt.show() returns (line 391) when no figure is left open, the call
\* that began to wait last first
ShowReturn(p) ==
    /\ AllIdle
    /\ figures.showing # <<>>
    /\ figures.showing[Len(figures.showing)] = p
    /\ figures.open = {}
    /\ figures' = [figures EXCEPT !.showing = SubSeq(@, 1, Len(@) - 1)]
    /\ UNCHANGED plotter
    /\ UNCHANGED <<dpvars, instvars, callvars, threadvars>>

\* plotter.create_figure() called by the user (lines 198-213): fig and ax
\* are assigned when plt.subplots returns, RuntimeError otherwise
CreateFigure(p) ==
    /\ AllIdle
    /\ figures.created < MaxFigures
    /\ \E raises \in BOOLEAN :
          IF raises
          THEN /\ plotter' = [plotter EXCEPT ![p] =
                                 [@ EXCEPT !.op = "create_figure",
                                           !.err = "RuntimeError", !.step = ""]]
               /\ UNCHANGED figures
          ELSE /\ plotter' = [plotter EXCEPT ![p] =
                                 [@ EXCEPT !.fig = [num |-> subplots(figures).created],
                                           !.ax = [of |-> subplots(figures).created],
                                           !.op = "create_figure", !.err = "",
                                           !.step = ""]]
               /\ figures' = subplots(figures)
    /\ UNCHANGED <<dpvars, instvars, callvars, threadvars>>

\* plotter.cleanup() called by the user (lines 403-409)
Cleanup(p) ==
    /\ AllIdle
    /\ plotter' = [plotter EXCEPT ![p] =
                      [cleanup(@) EXCEPT !.op = "cleanup", !.err = "", !.step = ""]]
    /\ figures' = close_all(figures)
    /\ UNCHANGED <<dpvars, instvars, callvars, threadvars>>

\* close (lines 393-401)
Close(p) ==
    /\ AllIdle
    /\ plotter' = [plotter EXCEPT ![p] = [close(@) EXCEPT !.op = "close", !.err = "", !.step = ""]]
    /\ figures' = IF plotter[p].fig # None
                  THEN [figures EXCEPT !.open = @ \ {plotter[p].fig.num}]
                  ELSE figures
    /\ UNCHANGED <<dpvars, instvars, callvars, threadvars>>

\* with plotter: (lines 411-417)
Enter(p) ==
    /\ AllIdle
    /\ plotter[p].block = "out"
    /\ plotter' = [plotter EXCEPT ![p] =
                      [@ EXCEPT !.block = "in", !.op = "__enter__", !.err = "",
                                !.step = ""]]
    /\ UNCHANGED figures
    /\ UNCHANGED <<dpvars, instvars, callvars, threadvars>>

\* the with block is left, by its end or by an exception (lines 419-424)
Exit(p) ==
    /\ AllIdle
    /\ plotter[p].block = "in"
    /\ plotter' = [plotter EXCEPT ![p] =
                      [cleanup(@) EXCEPT !.block = "exited", !.op = "__exit__",
                                         !.err = "", !.step = ""]]
    /\ figures' = close_all(figures)
    /\ UNCHANGED <<dpvars, instvars, callvars, threadvars>>



NextPlot ==
    \/ \E p \in Plotters : PlotCall(p)
    \/ \E p \in Plotters : PlotStep(p)
    \/ \E p \in Plotters : PlotExcept(p)
    \/ \E p \in Plotters : Save(p)
    \/ \E p \in Plotters : Show(p)
    \/ \E n \in 1..MaxFigures : CloseWindow(n)
    \/ \E p \in Plotters : ShowReturn(p)
    \/ \E p \in Plotters : Close(p)
    \/ \E p \in Plotters : Enter(p)
    \/ \E p \in Plotters : Exit(p)
    \/ \E p \in Plotters : CreateFigure(p)
    \/ \E p \in Plotters : Cleanup(p)

SpecPlot == InitPlot /\ [][NextPlot]_vars

\* the plotter p holds no figure
HoldsNone(p) == plotter[p].fig = None /\ plotter[p].ax = None

\* the latest call of plotter p in the state st of the plotters is a
\* plot() that raised or the exit of a with block
Released(st, p) ==
    \/ st[p].op = "plot" /\ st[p].at = "idle" /\ st[p].err # ""
    \/ st[p].op = "__exit__"

\* C26: a plotter's fig is None exactly when its ax is; a plotter whose
\* latest call is a plot() that raised, at whichever step, or the exit of
\* a with block, holds no figure; a save() or show() of a plotter that
\* holds no figure has raised ValueError; and the save() or show() that
\* follows such a plot() or exit raises ValueError.
C26_ReleasedAfterFailure ==
    /\ [](\A p \in Plotters :
            /\ (plotter[p].fig = None) <=> (plotter[p].ax = None)
            /\ Released(plotter, p) => HoldsNone(p)
            /\ (plotter[p].op \in {"save", "show"} /\ plotter[p].fig = None)
                  => plotter[p].err = "ValueError"
            /\ (plotter[p].op \in {"save", "show"} /\ plotter[p].err # "ValueError")
                  => plotter[p].fig # None)
    /\ [][\A p \in Plotters :
            (Released(plotter, p) /\ plotter'[p].op \in {"save", "show"})
                => plotter'[p].err = "ValueError"]_vars

\* inside a with block a plot() has failed at adjust_layout, its figure
\* created before, and the plotter holds none
C26_Witness ==
    \E p \in Plotters :
        /\ plotter[p].op = "plot" /\ plotter[p].at = "idle"
        /\ plotter[p].err = "RuntimeError"
        /\ plotter[p].step = "adjust_layout"
        /\ HoldsNone(p)
        /\ plotter[p].block = "in"
        /\ figures.created >= 1

(***************************************************************************)
(* Threads that each call simplify once (lines 188-191), on an instance of *)
(* their own or on one they share, a statement at a time (SpecThreads).    *)
(* A thread is a record: self is the index of its instance, data the       *)
(* curve it passes, at the statement it is about to run, found the local   *)
(* value of the right-hand side of line 189, ret what its call returned    *)
(* or raised.                                                              *)
(***************************************************************************)
Threads == {1, 2}

\* a CurveSimplifier as __init__ leaves it (lines 79-80)
new_instance(target) == [epsilon |-> None, target_ncc |-> target]

new_thread(inst, data, minval) ==
    [self |-> inst, data |-> data, minval |-> minval, at |-> "test",
     found |-> None, ret |-> Ok(<<>>)]

\* the instances and the threads' assignment to them: one instance each, or
\* one for all
Sharings ==
    {[instances |-> <<new_instance(t1), new_instance(t2)>>,
      self |-> [t \in Threads |-> t]] : t1 \in Targets, t2 \in Targets}
    \cup
    {[instances |-> <<new_instance(t1)>>, self |-> [t \in Threads |-> 1]] :
        t1 \in Targets}

InitThreads ==
    /\ \E sh \in Sharings, ds \in [Threads -> CallerCurves], m \in MinVals :
          /\ instances = sh.instances
          /\ threads = [t \in Threads |-> new_thread(sh.self[t], ds[t], m)]
    /\ DPIdle
    /\ InstIdle
    /\ CallIdle
    /\ PlotIdle

\* line 188: if self.epsilon is None
Test(t) ==
    /\ threads[t].at = "test"
    /\ threads' = [threads EXCEPT ![t].at =
                      IF instances[threads[t].self].epsilon = None
                      THEN "search" ELSE "simplify"]
    /\ UNCHANGED instances
    /\ UNCHANGED <<dpvars, instvars, callvars, plotvars>>

\* line 189, right-hand side: self._find_optimal_epsilon(data)
Search(t) ==
    /\ threads[t].at = "search"
    /\ \E r \in {optimal_epsilon[threads[t].data,
                                 instances[threads[t].self].target_ncc,
                                 threads[t].minval]} :
          threads' = [threads EXCEPT ![t] =
                         IF r.err # ""
                         THEN [@ EXCEPT !.at = "done", !.ret = Raise(r.err)]
                         ELSE [@ EXCEPT !.at = "store", !.found = r.val]]
    /\ UNCHANGED instances
    /\ UNCHANGED <<dpvars, instvars, callvars, plotvars>>

\* line 189, the assignment: self.epsilon = ...
Store(t) ==
    /\ threads[t].at = "store"
    /\ instances' = [instances EXCEPT ![threads[t].self].epsilon = threads[t].found]
    /\ threads' = [threads EXCEPT ![t].at = "simplify"]
    /\ UNCHANGED <<dpvars, instvars, callvars, plotvars>>

\* line 191: return self._simplify_with_epsilon(data, self.epsilon)
SimplifyReturn(t) ==
    /\ threads[t].at = "simplify"
    /\ threads' = [threads EXCEPT ![t] =
                      [@ EXCEPT !.at = "done",
                                !.ret = simplify_with_epsilon(
                                            threads[t].data,
                                            instances[threads[t].self].epsilon)]]
    /\ UNCHANGED instances
    /\ UNCHANGED <<dpvars, instvars, callvars, plotvars>>

NextThreads ==
    \/ \E t \in Threads : Test(t)
    \/ \E t \in Threads : Search(t)
    \/ \E t \in Threads : Store(t)
    \/ \E t \in Threads : SimplifyReturn(t)

SpecThreads == InitThreads /\ [][NextThreads]_vars

\* the instances as constructed
FreshInstances ==
    [i \in DOMAIN instances |-> new_instance(instances[i].target_ncc)]

\* the whole call of thread t made on the instances insts, one call at a
\* time: the instances afterwards and what the call returned or raised
CallAlone(st, t) ==
    LET r == simplify(threads[t].data, st.instances[threads[t].self].epsilon,
                      st.instances[threads[t].self].target_ncc, threads[t].minval)
    IN  [instances |-> [st.instances EXCEPT ![threads[t].self].epsilon = r.epsilon],
         ret |-> [st.ret EXCEPT ![t] = r.ret]]

\* the calls made one after the other, thread a's first
OneAfterTheOther(a, b) ==
    CallAlone(CallAlone([instances |-> FreshInstances,
                         ret |-> [t \in Threads |-> Ok(<<>>)]], a), b)

AllDone == \A t \in Threads : threads[t].at = "done"

\* C21 as claimed: when every call has returned or raised, each call's
\* outcome and every instance's epsilon are those of the calls made one
\* after the other in some order, whether the threads have an instance each
\* or share one (whose target is then the same for both calls).
C21_ConcurrentCallsSerializable ==
    AllDone =>
        \E a \in Threads, b \in Threads :
            /\ a # b
            /\ OneAfterTheOther(a, b).instances = instances
            /\ \A t \in Threads : OneAfterTheOther(a, b).ret[t] = threads[t].ret

(***************************************************************************)
(* ParticleSizeFormatter.format (data_processing/utils/formatters.py) of a *)
(* formatter with a cumulative column and no density column, one call      *)
(* (SpecFormat).  A column entry is a number or a NaN.  The simplifier     *)
(* returns _simplify_with_epsilon(data, epsilon) for the epsilon its       *)
(* search stored, a midpoint the search evaluated (curve_simpler.py lines  *)
(* 131, 135, 189-191); the search is not computed for curves this long,    *)
(* and the epsilon is a choice among the midpoints of its first depths.    *)
(***************************************************************************)
MaxDistinct == 101

\* the depths of the search whose midpoints the epsilon is drawn from
MaxMidpointDepth == 2

\* len(diameters) > 100 (line 484)
simplify_threshold == 100

\* an entry of a column as np.array(..., dtype=np.float64) reads it: the
\* number v, or a NaN
Entry(isnan, v) == [nan |-> isnan, v |-> IF isnan THEN 0 ELSE v]

\* the rows of a table: distinct diameters 1..n with a flat or a rising
\* cumulative value, then a second row for diameter 1, a row without
\* diameter and a row without cumulative value
TableRows(n, rising, dup, nan_d, nan_c) ==
    [i \in 1..n |-> [d |-> Entry(FALSE, i),
                     c |-> Entry(FALSE, IF rising THEN i - 1 ELSE 0)]]
    \o (IF dup /\ n >= 1
        THEN << [d |-> Entry(FALSE, 1), c |-> Entry(FALSE, 2)] >> ELSE <<>>)
    \o (IF nan_d THEN << [d |-> Entry(TRUE, 0), c |-> Entry(FALSE, 0)] >> ELSE <<>>)
    \o (IF nan_c THEN << [d |-> Entry(FALSE, n + 1), c |-> Entry(TRUE, 0)] >> ELSE <<>>)

\* data["data"]: the two columns of a table, its rows in the order given
\* or in the opposite one
Columns(rows, descending) ==
    [diameter |-> [i \in 1..Len(rows) |->
                      rows[IF descending THEN Len(rows) + 1 - i ELSE i].d],
     cumulative |-> [i \in 1..Len(rows) |->
                      rows[IF descending THEN Len(rows) + 1 - i ELSE i].c]]

\* the tables of 0, 1, 2 and MaxDistinct - 2 to MaxDistinct distinct
\* diameters
Tables ==
    {Columns(TableRows(n, rising, dup, nan_d, nan_c), descending) :
        n \in {0, 1, 2} \cup ((MaxDistinct - 2)..MaxDistinct),
        rising \in BOOLEAN, dup \in BOOLEAN,
        nan_d \in BOOLEAN, nan_c \in BOOLEAN, descending \in BOOLEAN}

FormatArgs ==
    {[op |-> "format", simplify_curve |-> f, data |-> t] :
        f \in BOOLEAN, t \in Tables}

\* np.unique(diameters) (lines 455-460) of the values at the rows kept: the
\* distinct values in ascending order
unique_sorted(vals) ==
    IF vals = {} THEN <<>>
    ELSE LET lo == CHOOSE v \in vals : \A w \in vals : v <= w
             hi == CHOOSE v \in vals : \A w \in vals : w <= v
             Kept(v) == v \in vals
         IN  SelectSeq([i \in 1..(hi - lo + 1) |-> lo + i - 1], Kept)

RECURSIVE SumOver(_, _)
SumOver(col, rows) ==
    IF rows = {} THEN 0
    ELSE LET i == CHOOSE j \in rows : TRUE
         IN  col[i].v + SumOver(col, rows \ {i})

\* np.mean(cumulative[diameters == d]) (line 462), exact when the sum is a
\* multiple of the count
mean_at(dcol, ccol, kept, d) ==
    SumOver(ccol, {i \in kept : dcol[i].v = d})
        \div Cardinality({i \in kept : dcol[i].v = d})

\* lines 439-464: the rows with a diameter (ValueError when there is none),
\* of them those with a cumulative value, sorted by diameter, the
\* cumulative values of equal diameters averaged
clean_curve(dcol, ccol) ==
    IF {i \in 1..Len(dcol) : ~dcol[i].nan} = {}
    THEN Raise("ValueError")
    ELSE LET kept == {i \in 1..Len(dcol) : ~dcol[i].nan /\ ~ccol[i].nan}
             diameters == unique_sorted({dcol[i].v : i \in kept})
         IN  Ok(CurveData(diameters,
                          [k \in 1..Len(diameters) |->
                              mean_at(dcol, ccol, kept, diameters[k])]))

\* line 484.
\* faulty variant of needs_simplifying: a curve of simplify_threshold points
\* is simplified too
needs_simplifying_from_threshold(enabled, n) == enabled /\ n >= simplify_threshold

needs_simplifying(enabled, n) == enabled /\ n > simplify_threshold

\* the midpoints (curve_simpler.py line 126) of the interval from left to
\* right and of its halves, to the given depth
RECURSIVE MidpointsWithin(_, _, _)
MidpointsWithin(left, right, depth) ==
    IF depth = 0 THEN {}
    ELSE {Midpoint(left, right)}
         \cup MidpointsWithin(left, Midpoint(left, right), depth - 1)
         \cup MidpointsWithin(Midpoint(left, right), right, depth - 1)

\* self._simplifier.simplify(curve_data) (line 486) on the formatter's own
\* simplifier: the curve simplified with an epsilon the search can store
simplifier_returns(curve) ==
    {simplify_with_epsilon(curve, eps).val :
        eps \in MidpointsWithin(search_init(initial_epsilon).stack[1].left,
                                search_init(initial_epsilon).stack[1].right,
                                MaxMidpointDepth)}

\* lines 491-522 and 527-528: the intervals and the dictionary returned,
\* the statistics left out; cumulative[0] of an empty array raises
\* IndexError, reported as ValueError.  calls lists the curves passed to the
\* simplifier.
format_result(curve, calls) ==
    IF Len(curve.y) = 0
    THEN [err |-> "ValueError", val |-> <<>>, calls |-> calls]
    ELSE [err |-> "",
          val |-> [diameter |-> curve.x,
                   cumulative |-> curve.y,
                   interval |-> [k \in 1..Len(curve.y) |->
                                    IF k = 1 THEN curve.y[1]
                                    ELSE curve.y[k] - curve.y[k - 1]],
                   num_points |-> Len(curve.x)],
          calls |-> calls]

InitFormat ==
    /\ sargs \in FormatArgs
    /\ search = [status |-> "idle"]
    /\ returned = <<>>
    /\ DPIdle
    /\ InstIdle
    /\ PlotIdle
    /\ ThreadsIdle

\* formatter.format(data) (lines 413-528)
Format ==
    /\ sargs.op = "format"
    /\ returned = <<>>
    /\ \E c \in {clean_curve(sargs.data.diameter, sargs.data.cumulative)} :
          IF c.err # ""
          THEN returned' = << [err |-> c.err, val |-> <<>>, calls |-> <<>>] >>
          ELSE IF needs_simplifying(sargs.simplify_curve, Len(c.val.x))
          THEN \E simplified \in simplifier_returns(c.val) :
                  returned' = << format_result(simplified, <<c.val>>) >>
          ELSE returned' = << format_result(c.val, <<>>) >>
    /\ UNCHANGED <<sargs, search>>
    /\ UNCHANGED <<dpvars, instvars, plotvars, threadvars>>

SpecFormat == InitFormat /\ [][Format]_vars

\* the rows of the table that have a diameter and a cumulative value
ValidRows ==
    {i \in 1..Len(sargs.data.diameter) :
        ~sargs.data.diameter[i].nan /\ ~sargs.data.cumulative[i].nan}

\* the distinct diameters of those rows: the points of the cleaned, sorted,
\* deduplicated curve
CleanedDiameters == {sargs.data.diameter[i].v : i \in ValidRows}

\* the rows of the diameter d
RowsOf(d) == {i \in ValidRows : sargs.data.diameter[i].v = d}

\* the arrays x and y hold the cleaned curve: the distinct diameters in
\* ascending order, each with the mean of its cumulative values
IsCleanedCurve(x, y) ==
    /\ Len(x) = Cardinality(CleanedDiameters)
    /\ Len(y) = Len(x)
    /\ {x[k] : k \in 1..Len(x)} = CleanedDiameters
    /\ \A k \in 1..(Len(x) - 1) : x[k] < x[k + 1]
    /\ \A k \in 1..Len(x) :
          y[k] * Cardinality(RowsOf(x[k])) = SumOver(sargs.data.cumulative, RowsOf(x[k]))

\* C22: a call of format passes a curve to the simplifier if and only if
\* simplify_curve is set and the cleaned curve has more than 100 points, at
\* most once, and that curve is the cleaned one; a call that returns
\* without having done so returns the cleaned diameters and cumulative
\* values themselves.
C22_SimplifierCutoff ==
    returned # <<>> =>
        /\ Len(returned[1].calls) <= 1
        /\ (Len(returned[1].calls) = 1)
              <=> (sargs.simplify_curve /\ Cardinality(CleanedDiameters) > 100)
        /\ \A k \in 1..Len(returned[1].calls) :
              IsCleanedCurve(returned[1].calls[k].x, returned[1].calls[k].y)
        /\ (returned[1].err = "" /\ returned[1].calls = <<>>)
              => IsCleanedCurve(returned[1].val.diameter, returned[1].val.cumulative)

\* a table of more than 101 rows whose cleaned curve has 101 points has
\* been formatted and simplified
C22_Witness ==
    /\ returned # <<>>
    /\ returned[1].err = ""
    /\ Len(returned[1].calls) = 1
    /\ Len(returned[1].calls[1].x) = 101
    /\ Len(sargs.data.diameter) > 101
    /\ returned[1].val.num_points < 101

====
